---- MODULE Spec2Model ----
(***************************************************************************)
(* The quiz scheduler of tg-poster: schedules persisted as one list in a   *)
(* key-value store, the used-question log, and the activations (cron       *)
(* firings, triggerTestQuiz, generateWeeklySchedule) that run as async     *)
(* tasks interleaving at their awaits.  A step of a task is the code       *)
(* between two accesses to shared state (the store, the gateway).          *)
(***************************************************************************)
EXTENDS Integers, Sequences, FiniteSets, TLC

\* ---------------------------------------------------------------- bounds
MaxTasks == 2
NumQuestions == 2
MaxCount == 2
MaxDay == 2
MaxFaults == 1
MaxWeekly == 1
MaxShuffle == 3
MaxDocs == 3
MaxBatch == 2
MaxVerdicts == 2
NumIds == 3
MaxAnswerLen == 2
MaxOptions == 4
MaxPool == 4
MaxSession == 2
MaxChapters == 4
MaxMessages == 5
MaxFeed == 3

\* ------------------------------------------------------ program constants
MaxAttempts == 3
FetchFactor == 5
FetchCap == 500
AvoidRecentDays == 7
RetentionDays == 30
DefaultQuestionCount == MaxCount
BATCH_SIZE == 4
Retries == 3

VARIABLES store, usedLog, clock, tasks, nextId, faults, stamp, delivered,
          call, ret

\* call and ret hold the arguments and the result of a function that is
\* exercised on its own (SpecSelect, SpecLoop, SpecQuality, SpecIndex); the
\* scheduler leaves them alone.
vars == <<store, usedLog, clock, tasks, nextId, faults, stamp, delivered, call, ret>>

Tasks == 1..MaxTasks
Questions == 1..NumQuestions
Times == {"08:00", "20:00"}
Min(a, b) == IF a < b THEN a ELSE b

\* ------------------------------------------------------------ the store
\* getValue: the stored value, or the default when the request fails.
GetValue(value, default, ok) == IF ok THEN value ELSE default

\* setValue: whole-value upsert; a failed request is logged and swallowed.
SetValue(old, new, ok) == IF ok THEN new ELSE old

\* ---------------------------------------------------------- schedules
NoSched ==
    [id |-> 0, date |-> 0, time |-> "08:00", status |-> "none",
     questionCount |-> 0, completedAt |-> 0]

NewSchedule(id, date, time, count) ==
    [id |-> id, date |-> date, time |-> time, status |-> "scheduled",
     questionCount |-> count, completedAt |-> 0]

\* schedules.find(s => s.date === date && s.time === time && s.status === 'scheduled') || null
GetScheduleFor(schedules, date, time) ==
    LET hits == {i \in 1..Len(schedules) :
                    /\ schedules[i].date = date
                    /\ schedules[i].time = time
                    /\ schedules[i].status = "scheduled"}
    IN IF hits = {} THEN NoSched
       ELSE schedules[CHOOSE i \in hits : \A j \in hits : i <= j]

\* schedules.findIndex(s => s.id === id); 0 stands for -1
FindIndex(schedules, id) ==
    LET hits == {i \in 1..Len(schedules) : schedules[i].id = id}
    IN IF hits = {} THEN 0 ELSE CHOOSE i \in hits : \A j \in hits : i <= j

\* the body of updateScheduleStatus between its load and its save
SetStatus(schedules, index, status, now) ==
    [schedules EXCEPT ![index] =
        [@ EXCEPT !.status = status,
                  !.completedAt = IF status = "completed" THEN now ELSE @]]

\* ---------------------------------------------------------- selection
Perms(S) ==
    {f \in [1..Cardinality(S) -> S] :
        \A i, j \in 1..Cardinality(S) : i # j => f[i] # f[j]}

Range(s) == {s[i] : i \in 1..Len(s)}

\* getRecentlyUsedQuestionIds: ids of records with usedAt > now - days
RecentlyUsed(records, days, today) ==
    {records[i].questionId : i \in {j \in 1..Len(records) : records[j].usedAt > today - days}}

\* selectQuestions: the lists it can return for a count, given the
\* recently-used ids; a failing repository query yields the empty list.
SelectQuestions(count, recent, repoOk) ==
    IF ~repoOk THEN {<<>>}
    ELSE LET limit == Min(count * FetchFactor, FetchCap)
             fetches == {F \in SUBSET Questions :
                            Cardinality(F) = Min(NumQuestions, limit)}
         IN UNION {
              LET avail == F \ recent
              IN UNION {Perms(S) : S \in {T \in SUBSET avail :
                            Cardinality(T) = Min(count, Cardinality(avail))}}
              : F \in fetches}

\* (variant with a slip: exactly the shortfall is requested, no surplus)
FetchCountExact(needed) == needed

\* Math.ceil(needed * 1.5)
FetchCount(needed) == (3 * needed + 1) \div 2

\* (variant with a slip: the accepted list is not trimmed to the target)
FinalQuestionsUntrimmed(approved, targetCount) == approved

\* (variant with a slip: candidates drawn by an earlier attempt are let through)
NewQuestionsUnfiltered(questions, usedQuestionIds) == questions

\* questions.filter(q => !usedQuestionIds.has(q._id))
NewQuestions(questions, usedQuestionIds) ==
    SelectSeq(questions, LAMBDA q : q \notin usedQuestionIds)

\* (variant with a slip: an attempt that brings nothing new does not end the loop)
NoNewQuestionsIgnored(newQuestions) == FALSE

\* newQuestions.length === 0
NoNewQuestions(newQuestions) == newQuestions = <<>>

\* allApprovedQuestions.slice(0, targetCount)
FinalQuestions(approved, targetCount) ==
    SubSeq(approved, 1, Min(targetCount, Len(approved)))

\* ---------------------------------------------------------------- tasks
IdleTask ==
    [pc |-> "idle", kind |-> "none", date |-> 0, time |-> "08:00",
     sched |-> NoSched, schedules |-> <<>>, items |-> <<>>,
     req |-> "none", acc |-> <<>>, drawn |-> {}, attempt |-> 0,
     final |-> <<>>, qi |-> 0, startSent |-> FALSE,
     completeSent |-> FALSE, result |-> "none", existing |-> <<>>,
     outcome |-> "none", logged |-> FALSE, wrote |-> {},
     created |-> FALSE, reentrant |-> FALSE, existed |-> FALSE]

\* a returned activation: its locals are gone
DoneTask == [IdleTask EXCEPT !.pc = "done"]

\* getISTTime(): '0x'/'1x' hours pick the morning slot, else the evening
TestSlot(phase) == IF phase < 2 THEN "08:00" ELSE "20:00"

\* no function is being exercised
NoCall == [fn |-> "none"]

Init ==
    /\ store = <<>>
    /\ usedLog = <<>>
    /\ clock = [day |-> 1, phase |-> 2]
    /\ tasks = [t \in Tasks |-> IdleTask]
    /\ nextId = 1
    /\ faults = 0
    /\ stamp = 1
    /\ delivered = {}
    /\ call = NoCall
    /\ ret = NoCall

Running(t) == tasks[t].pc \notin {"idle", "done"}

\* Bound of the model: store requests fail only while a single activation
\* runs, and activations overlap only while no request has failed.
Free(t) ==
    /\ tasks[t].pc = "idle"
    /\ \A u \in Tasks : u < t => tasks[u].pc # "idle"
    /\ faults = 0 \/ \A u \in Tasks : ~Running(u)

Set(t, rec) == tasks' = [tasks EXCEPT ![t] = rec]

Fault(ok) ==
    /\ ok \/ (faults < MaxFaults /\ Cardinality({u \in Tasks : Running(u)}) = 1)
    /\ faults' = IF ok THEN faults ELSE faults + 1


\* ------------------------------------------- executeScheduledQuiz, in steps
\* a call of updateScheduleStatus(schedule.id, status): its load comes next
BeginUpdate(tk, status) == [tk EXCEPT !.pc = "upd_load", !.req = status]

\* what follows the status update that has just returned
AfterUpdate(tk) ==
    IF tk.req = "in_progress" THEN [tk EXCEPT !.pc = "attempt"]
    ELSE DoneTask

\* (variant with a slip: the empty-list branch cancels but does not return)
AfterLoopNoReturn(tk) ==
    LET final == FinalQuestions(tk.acc, tk.sched.questionCount)
        tk1 == [tk EXCEPT !.final = final, !.acc = <<>>, !.drawn = {}, !.attempt = 0]
    IN IF Len(final) = 0
       THEN [tk1 EXCEPT !.outcome = "zero", !.req = "cancelled", !.pc = "run_quiz"]
       ELSE [tk1 EXCEPT !.pc = "run_quiz"]

\* lines 196-212: trim, cancel on an empty list, else hand over to runQuiz
AfterLoop(tk) ==
    LET final == FinalQuestions(tk.acc, tk.sched.questionCount)
        tk1 == [tk EXCEPT !.final = final, !.acc = <<>>, !.drawn = {}, !.attempt = 0]
    IN IF Len(final) = 0
       THEN BeginUpdate([tk1 EXCEPT !.outcome = "zero"], "cancelled")
       ELSE [tk1 EXCEPT !.pc = "run_quiz"]

\* checkQuestionQuality as the loop sees it: a set of approved ids, or a throw
QualityOutcomes(ids) ==
    [threw : {FALSE}, approved : SUBSET ids] \cup {[threw |-> TRUE, approved |-> {}]}

\* (variant with a slip: the loop's guard forgets the attempt budget)
LoopGoesOnUnbounded(tk) == Len(tk.acc) < tk.sched.questionCount

\* allApprovedQuestions.length < targetCount && attempt < maxAttempts
LoopGoesOn(tk) ==
    Len(tk.acc) < tk.sched.questionCount /\ tk.attempt < MaxAttempts

\* lines 177-193, and the catch of lines 224-227 when the check throws
AfterQuality(tk, newQuestions, verdict) ==
    IF verdict.threw
    THEN BeginUpdate([tk EXCEPT !.outcome = "threw", !.acc = <<>>, !.drawn = {},
                                !.attempt = 0], "cancelled")
    ELSE LET approvedQuestions == SelectSeq(newQuestions, LAMBDA q : q \in verdict.approved)
             tk2 == [tk EXCEPT !.acc = @ \o approvedQuestions]
         IN IF ~LoopGoesOn(tk2)
            THEN AfterLoop(tk2)
            ELSE tk2

\* (variant with a slip: the catch of runQuiz reports success too)
RunQuizResultAlwaysOk(threw) == "ok"

\* runQuiz's report: success unless an exception escaped the session
RunQuizResult(threw) == IF threw THEN "fail" ELSE "ok"

\* (variant with a slip: the failure branch writes completed instead of cancelled)
AfterRunCompletesOnFailure(tk, result) ==
    IF result = "ok"
    THEN [tk EXCEPT !.result = result, !.outcome = "delivered", !.pc = "mark_load"]
    ELSE BeginUpdate([tk EXCEPT !.result = result, !.outcome = "delivery_failed"], "completed")

\* lines 214-223: mark used and complete on success, cancel otherwise
AfterRun(tk, result) ==
    IF result = "ok"
    THEN [tk EXCEPT !.result = result, !.outcome = "delivered", !.pc = "mark_load"]
    ELSE BeginUpdate([tk EXCEPT !.result = result, !.outcome = "delivery_failed"], "cancelled")

\* markQuestionsUsed: the value it writes, from the records it loaded
MarkedLog(existing, questionIds, scheduleId, today) ==
    LET newRecords == [i \in 1..Len(questionIds) |->
                          [questionId |-> questionIds[i], scheduleId |-> scheduleId,
                           usedAt |-> today]]
        filteredExisting == SelectSeq(existing, LAMBDA r : r.usedAt > today - RetentionDays)
    IN filteredExisting \o newRecords

\* the schedules of a list for one (date, time) pair
PairCount(schedules, date, time) ==
    Cardinality({i \in 1..Len(schedules) :
                    schedules[i].date = date /\ schedules[i].time = time})

\* some schedule of the pair is in_progress
InProgressFor(schedules, date, time) ==
    \E i \in 1..Len(schedules) :
        /\ schedules[i].date = date
        /\ schedules[i].time = time
        /\ schedules[i].status = "in_progress"

CronSlot(phase) == IF phase = 0 THEN "08:00" ELSE "20:00"

\* ------------------------------------------------------------- activations
\* cron '30 2 * * *' and '30 14 * * *': checkAndExecuteQuiz(time) starts
FireCron(t) ==
    /\ Free(t)
    /\ clock.phase < 2
    /\ clock' = [clock EXCEPT !.phase = @ + 1]
    /\ Set(t, [IdleTask EXCEPT !.pc = "lookup", !.kind = "cron", !.date = clock.day,
                               !.time = CronSlot(clock.phase),
                               !.reentrant = InProgressFor(store, clock.day,
                                                           CronSlot(clock.phase))])
    /\ UNCHANGED <<store, usedLog, nextId, faults, stamp, delivered, call, ret>>

\* midnight IST
NextDay ==
    /\ clock.phase = 2
    /\ clock.day < MaxDay
    /\ clock' = [day |-> clock.day + 1, phase |-> 0]
    /\ UNCHANGED <<store, usedLog, tasks, nextId, faults, stamp, delivered, call, ret>>

\* checkAndExecuteQuiz: getScheduleFor, then execute or auto-generate
Lookup(t) ==
    /\ tasks[t].pc = "lookup"
    /\ \E ok \in BOOLEAN, subjects \in BOOLEAN :
        /\ Fault(ok)
        /\ LET tk == tasks[t]
               s == GetScheduleFor(GetValue(store, <<>>, ok), tk.date, tk.time)
               tk1 == [tk EXCEPT
                         !.reentrant = @ /\ InProgressFor(store, tk.date, tk.time),
                         !.existed = ok /\ PairCount(store, tk.date, tk.time) >= 1]
           IN IF s # NoSched
              THEN /\ Set(t, BeginUpdate([tk1 EXCEPT !.sched = s, !.existed = FALSE], "in_progress"))
                   /\ nextId' = nextId
              ELSE IF ~subjects
              THEN /\ Set(t, DoneTask)
                   /\ nextId' = nextId
              ELSE /\ Set(t, [tk1 EXCEPT !.pc = "create_load",
                                !.sched = NewSchedule(nextId, tk.date, tk.time,
                                                      DefaultQuestionCount)])
                   /\ nextId' = nextId + 1
    /\ UNCHANGED <<store, usedLog, clock, stamp, delivered, call, ret>>

\* triggerTestQuiz(questionCount) up to its createSchedule
TriggerTest(t) ==
    /\ Free(t)
    /\ \E count \in 1..MaxCount, subjects \in BOOLEAN :
        IF ~subjects
        THEN /\ Set(t, DoneTask)
             /\ nextId' = nextId
        ELSE /\ Set(t, [IdleTask EXCEPT !.pc = "create_load", !.kind = "test",
                          !.date = clock.day, !.time = TestSlot(clock.phase),
                          !.sched = NewSchedule(nextId, clock.day, TestSlot(clock.phase), count)])
             /\ nextId' = nextId + 1
    /\ UNCHANGED <<store, usedLog, clock, faults, stamp, delivered, call, ret>>

\* what generateSchedule may hand back: entries for upcoming (date, time) pairs
AiSchedules ==
    LET entries == [date : clock.day..MaxDay, time : Times, count : 1..MaxCount]
    IN UNION {[1..n -> entries] : n \in 0..MaxWeekly}

\* generateWeeklySchedule up to its first createSchedule
Weekly(t) ==
    /\ Free(t)
    /\ \E subjects \in BOOLEAN, ai \in AiSchedules :
        IF ~subjects \/ ai = <<>>
        THEN /\ Set(t, DoneTask)
             /\ nextId' = nextId
        ELSE /\ Set(t, [IdleTask EXCEPT !.pc = "create_load", !.kind = "weekly",
                          !.items = Tail(ai),
                          !.sched = NewSchedule(nextId, ai[1].date, ai[1].time, ai[1].count)])
             /\ nextId' = nextId + 1
    /\ UNCHANGED <<store, usedLog, clock, faults, stamp, delivered, call, ret>>

\* createSchedule: loadSchedules
CreateLoad(t) ==
    /\ tasks[t].pc = "create_load"
    /\ \E ok \in BOOLEAN :
        /\ Fault(ok)
        /\ Set(t, [tasks[t] EXCEPT !.schedules = GetValue(store, <<>>, ok),
                                   !.pc = "create_save"])
    /\ UNCHANGED <<store, usedLog, clock, nextId, stamp, delivered, call, ret>>

\* createSchedule: push and saveSchedules, then what the caller does next
CreateSave(t) ==
    /\ tasks[t].pc = "create_save"
    /\ \E ok \in BOOLEAN :
        /\ Fault(ok)
        /\ store' = SetValue(store, Append(tasks[t].schedules, tasks[t].sched), ok)
        /\ LET tk == [tasks[t] EXCEPT !.schedules = <<>>, !.existed = FALSE,
                                      !.created = @ \/ ok]
           IN IF tk.kind = "weekly"
              THEN IF tk.items = <<>>
                   THEN /\ Set(t, DoneTask)
                        /\ nextId' = nextId
                   ELSE /\ Set(t, [tk EXCEPT !.pc = "create_load", !.items = Tail(@),
                                     !.sched = NewSchedule(nextId, tk.items[1].date,
                                                 tk.items[1].time, tk.items[1].count)])
                        /\ nextId' = nextId + 1
              ELSE /\ Set(t, BeginUpdate(tk, "in_progress"))
                   /\ nextId' = nextId
    /\ UNCHANGED <<usedLog, clock, stamp, delivered, call, ret>>

\* updateScheduleStatus: loadSchedules, findIndex, and the change of the copy
UpdLoad(t) ==
    /\ tasks[t].pc = "upd_load"
    /\ \E ok \in BOOLEAN :
        /\ Fault(ok)
        /\ LET tk == tasks[t]
               schedules == GetValue(store, <<>>, ok)
               index == FindIndex(schedules, tk.sched.id)
           IN IF index > 0
              THEN /\ Set(t, [tk EXCEPT !.schedules = SetStatus(schedules, index, tk.req, stamp),
                                        !.pc = "upd_save"])
                   /\ stamp' = IF tk.req = "completed" THEN stamp + 1 ELSE stamp
              ELSE /\ Set(t, AfterUpdate(tk))
                   /\ stamp' = stamp
    /\ UNCHANGED <<store, usedLog, clock, nextId, delivered, call, ret>>

\* updateScheduleStatus: saveSchedules
UpdSave(t) ==
    /\ tasks[t].pc = "upd_save"
    /\ \E ok \in BOOLEAN :
        /\ Fault(ok)
        /\ store' = SetValue(store, tasks[t].schedules, ok)
        /\ Set(t, AfterUpdate([tasks[t] EXCEPT !.schedules = <<>>,
                                 !.wrote = IF ok THEN @ \cup {tasks[t].req} ELSE @]))
    /\ UNCHANGED <<usedLog, clock, nextId, stamp, delivered, call, ret>>

\* one iteration of the acquisition loop, lines 142-194
Attempt(t) ==
    /\ tasks[t].pc = "attempt"
    /\ \E okU \in BOOLEAN, okRepo \in BOOLEAN :
        /\ Fault(okU)
        /\ okRepo \/ okU
        /\ LET tk == tasks[t]
               needed == tk.sched.questionCount - Len(tk.acc)
               recent == RecentlyUsed(GetValue(usedLog, <<>>, okU), AvoidRecentDays, clock.day)
           IN \E questions \in SelectQuestions(FetchCount(needed), recent, okRepo) :
                LET newQuestions == NewQuestions(questions, tk.drawn)
                    tk1 == [tk EXCEPT !.attempt = @ + 1,
                                      !.drawn = @ \cup Range(newQuestions)]
                IN IF NoNewQuestions(newQuestions)
                   THEN Set(t, AfterLoop(tk1))
                   ELSE \E verdict \in QualityOutcomes(Range(newQuestions)) :
                            Set(t, AfterQuality(tk1, newQuestions, verdict))
    /\ UNCHANGED <<store, usedLog, clock, nextId, stamp, delivered, call, ret>>

\* history: the sessions runQuiz reported as a success, each with its list
Reported(tk, result) ==
    IF result = "ok"
    THEN delivered \cup {[id |-> tk.sched.id, questions |-> tk.final]}
    ELSE delivered

\* runQuiz: the start announcement, sendQuestionPoll for each question (a
\* failed poll is logged, not raised), the completion summary; an exception
\* out of the announcement or the summary is caught at line 295.  The
\* session reads and writes no stored value, so it is one step here.
RunQuiz(t) ==
    /\ tasks[t].pc = "run_quiz"
    /\ \E startOk \in BOOLEAN, completeOk \in BOOLEAN :
        LET tk == tasks[t]
            n == Len(tk.final)
        IN IF ~startOk
           THEN /\ Set(t, AfterRun(tk, RunQuizResult(TRUE)))
                /\ delivered' = Reported(tk, RunQuizResult(TRUE))
           ELSE /\ Set(t, AfterRun([tk EXCEPT !.startSent = TRUE, !.qi = n,
                                              !.completeSent = completeOk],
                                   RunQuizResult(~completeOk)))
                /\ delivered' = Reported(tk, RunQuizResult(~completeOk))
    /\ UNCHANGED <<store, usedLog, clock, nextId, faults, stamp, call, ret>>

\* markQuestionsUsed: getValue and the new value
MarkLoad(t) ==
    /\ tasks[t].pc = "mark_load"
    /\ \E ok \in BOOLEAN :
        /\ Fault(ok)
        /\ Set(t, [tasks[t] EXCEPT !.pc = "mark_save",
                     !.existing = MarkedLog(GetValue(usedLog, <<>>, ok), tasks[t].final,
                                            tasks[t].sched.id, clock.day)])
    /\ UNCHANGED <<store, usedLog, clock, nextId, stamp, delivered, call, ret>>

\* markQuestionsUsed: setValue, then updateScheduleStatus(id, 'completed')
MarkSave(t) ==
    /\ tasks[t].pc = "mark_save"
    /\ \E ok \in BOOLEAN :
        /\ Fault(ok)
        /\ usedLog' = SetValue(usedLog, tasks[t].existing, ok)
        /\ Set(t, BeginUpdate([tasks[t] EXCEPT !.existing = <<>>, !.logged = ok], "completed"))
    /\ UNCHANGED <<store, clock, nextId, stamp, delivered, call, ret>>

Next ==
    \/ NextDay
    \/ \E t \in Tasks :
        \/ FireCron(t)
        \/ TriggerTest(t)
        \/ Weekly(t)
        \/ Lookup(t)
        \/ CreateLoad(t)
        \/ CreateSave(t)
        \/ UpdLoad(t)
        \/ UpdSave(t)
        \/ Attempt(t)
        \/ RunQuiz(t)
        \/ MarkLoad(t)
        \/ MarkSave(t)

Spec == Init /\ [][Next]_vars


\* ------------------------------------------------------------- properties
Terminal == {"completed", "cancelled"}
NonTerminal == {"scheduled", "in_progress"}

LifecycleSteps ==
    {<<"scheduled", "in_progress">>, <<"in_progress", "completed">>,
     <<"in_progress", "cancelled">>, <<"scheduled", "cancelled">>}

\* the status a task's pending saveSchedules carries for its own schedule
PendingStatus(tk) == tk.schedules[FindIndex(tk.schedules, tk.sched.id)].status

\* C1: the persisted status of a schedule changes only along
\* scheduled->in_progress, in_progress->completed, in_progress->cancelled or
\* scheduled->cancelled, whatever the interleaving of the activations.
C1_OnlyLifecycleTransitions ==
    [][\A i \in 1..Len(store) : \A j \in 1..Len(store') :
          (store[i].id = store'[j].id /\ store[i].status # store'[j].status)
              => <<store[i].status, store'[j].status>> \in LifecycleSteps]_vars

\* C2: once a schedule's persisted status is completed or cancelled, no later
\* updateScheduleStatus or executeScheduledQuiz changes its status or its
\* completedAt.
C2_TerminalImmutable ==
    [][\A i \in 1..Len(store) : \A j \in 1..Len(store') :
          (store[i].id = store'[j].id /\ store[i].status \in Terminal)
              => /\ store'[j].status = store[i].status
                 /\ store'[j].completedAt = store[i].completedAt]_vars

\* C3: the store never holds two schedules with status scheduled or
\* in_progress for the same (date, slot).
C3_OneNonTerminalPerSlot ==
    \A i, j \in 1..Len(store) :
        (/\ i # j
         /\ store[i].date = store[j].date
         /\ store[i].time = store[j].time
         /\ store[i].status \in NonTerminal)
            => store[j].status \notin NonTerminal

\* C4: an execution firing that arrives, and looks its (date, slot) up, while
\* a schedule of that pair is in_progress is a no-op: it creates no schedule,
\* sends nothing to the gateway and writes no status.
C4_ReentrantFiringIsNoOp ==
    \A t \in Tasks :
        (tasks[t].reentrant /\ tasks[t].pc # "lookup")
            => /\ ~tasks[t].created
               /\ ~tasks[t].startSent
               /\ tasks[t].wrote = {}
               /\ tasks[t].pc \notin {"create_load", "create_save", "upd_save", "run_quiz"}

\* C5: when a schedule already exists for the (date, slot), in whatever
\* status (the firing's lookup loaded it, and it is still stored at the
\* createSchedule), the auto-generation fallback leaves the number of
\* schedules of that pair unchanged.
C5_FallbackIdempotent ==
    [][\A t \in Tasks :
          (/\ tasks[t].kind = "cron"
           /\ tasks[t].existed
           /\ tasks[t].pc = "create_save"
           /\ tasks'[t].pc # "create_save"
           /\ PairCount(store, tasks[t].sched.date, tasks[t].sched.time) >= 1)
              => PairCount(store', tasks[t].sched.date, tasks[t].sched.time)
                    = PairCount(store, tasks[t].sched.date, tasks[t].sched.time)]_vars

C8_CompletedOnlyAfterDelivery ==
    /\ \A i \in 1..Len(store) :
          store[i].status = "completed" => \E r \in delivered : r.id = store[i].id
    /\ \A t \in Tasks :
          (tasks[t].result = "ok" \/ tasks[t].req = "completed")
              => /\ tasks[t].result = "ok"
                 /\ tasks[t].startSent
                 /\ tasks[t].qi = Len(tasks[t].final)
                 /\ tasks[t].completeSent
                 /\ \E r \in delivered : r.id = tasks[t].sched.id

C8_Witness ==
    \E i \in 1..Len(store) :
        /\ store[i].status = "completed"
        /\ \E r \in delivered : r.id = store[i].id

\* C9: whenever a schedule's persisted status is completed, the used-question
\* log holds, for every question of the session's list, a record with that
\* question id and the schedule's id.
C9_CompletedImpliesLogged ==
    \A i \in 1..Len(store) :
        store[i].status = "completed"
            => \E r \in delivered :
                  /\ r.id = store[i].id
                  /\ \A q \in Range(r.questions) :
                        \E k \in 1..Len(usedLog) :
                            /\ usedLog[k].questionId = q
                            /\ usedLog[k].scheduleId = r.id

Doc(id, level, key) == [id |-> id, level |-> level, key |-> key]

NoKey == 0

Levels == {"EASY", "MEDIUM", "HARD", ""}

\* quizConfig.selection.difficultyRatio, in tenths
DifficultyRatio == [EASY |-> 3, MEDIUM |-> 5, HARD |-> 2]

\* Math.round(count * ratio) for a ratio given in tenths: halves round up.
\* (count * 0.3 and count * 0.5 are the exact products, or their nearest
\* doubles, for every count used here.)
Round(count, tenths) == (2 * count * tenths + 10) \div 20

\* array.slice(0, n): a negative n counts from the end
Slice(s, n) ==
    LET end == IF n < 0 THEN Len(s) + n ELSE Min(n, Len(s))
    IN IF end <= 0 THEN <<>> ELSE SubSeq(s, 1, end)

Reverse(s) == [i \in 1..Len(s) |-> s[Len(s) + 1 - i]]

Rotate(s) == IF s = <<>> THEN s ELSE Tail(s) \o <<Head(s)>>

\* shuffleArray: any permutation; of a list longer than MaxShuffle only the
\* list itself, its reverse and its rotation are tried
ShuffleArray(s) ==
    IF Len(s) <= MaxShuffle
    THEN {[i \in 1..Len(s) |-> s[p[i]]] : p \in Perms(1..Len(s))}
    ELSE {s, Reverse(s), Rotate(s)}

Ids(s) == {s[i].id : i \in 1..Len(s)}

\* count - easyCount - mediumCount
HardCount(count, ratio) == count - Round(count, ratio.EASY) - Round(count, ratio.MEDIUM)

\* (variant with a slip: a short bucket is not made up for)
RemainingNone(count, selected) == 0

\* count - selected.length
Remaining(count, selected) == count - Len(selected)

\* selectByDifficultyRatio: the lists it can return
SelectByDifficultyRatio(questions, count, ratio) ==
    LET easy == SelectSeq(questions, LAMBDA q : q.level = "EASY")
        medium == SelectSeq(questions, LAMBDA q : q.level = "MEDIUM")
        hard == SelectSeq(questions, LAMBDA q : q.level = "HARD")
        unknown == SelectSeq(questions, LAMBDA q : q.level = "")
        easyCount == Round(count, ratio.EASY)
        mediumCount == Round(count, ratio.MEDIUM)
        hardCount == HardCount(count, ratio)
        Filled(selected) ==
            LET remaining == Remaining(count, selected)
                used == Ids(selected)
                pool == SelectSeq(unknown \o easy \o medium \o hard,
                                  LAMBDA q : q.id \notin used)
            IN IF remaining > 0
               THEN {selected \o Slice(p, remaining) : p \in ShuffleArray(pool)}
               ELSE {selected}
    IN UNION {UNION {ShuffleArray(f) : f \in Filled(Slice(e, easyCount)
                                                    \o Slice(m, mediumCount)
                                                    \o Slice(h, hardCount))}
              : e \in ShuffleArray(easy), m \in ShuffleArray(medium),
                h \in ShuffleArray(hard)}

\* (variant with a slip: a repeated dedupeKey is let through)
DedupeKeepsAll(questions) == questions

\* the dedupeKey filter: the first document of each non-empty key stays
Dedupe(questions) ==
    LET keep == {i \in 1..Len(questions) :
                    \/ questions[i].key = NoKey
                    \/ \A j \in 1..(i - 1) : questions[j].key # questions[i].key}
        F[i \in 0..Len(questions)] ==
            IF i = 0 THEN <<>>
            ELSE IF i \in keep THEN Append(F[i - 1], questions[i]) ELSE F[i - 1]
    IN F[Len(questions)]

\* selectQuestions on the documents matching the filter, in the order the
\* repository returns them; a failing query yields the empty list.
SelectQuestionsOf(docs, count, ratio, recentlyUsed, repoOk) ==
    IF ~repoOk THEN {<<>>}
    ELSE LET fetchCount == Min(count * FetchFactor, FetchCap)
             fetched == Slice(docs, fetchCount)
             fresh == SelectSeq(fetched, LAMBDA q : q.id \notin recentlyUsed)
             questions == Dedupe(fresh)
         IN IF Len(questions) < count
            THEN ShuffleArray(questions)
            ELSE SelectByDifficultyRatio(questions, count, ratio)

\* ---- the calls of selectQuestions that are tried
\* every list of up to MaxDocs documents, each with any level, keyed or not
SmallDocs ==
    UNION {{[i \in 1..n |-> Doc(i, f[i][1], f[i][2])] :
                f \in [1..n -> Levels \X {NoKey, 1}]} : n \in 0..MaxDocs}

\* e EASY, m MEDIUM, h HARD and u unlabelled documents; keys: none, one per
\* pair of neighbours, or one for all
MixedDocs(e, m, h, u, keys) ==
    [i \in 1..(e + m + h + u) |->
        Doc(i,
            IF i <= e THEN "EASY"
            ELSE IF i <= e + m THEN "MEDIUM"
            ELSE IF i <= e + m + h THEN "HARD" ELSE "",
            IF keys = "none" THEN NoKey
            ELSE IF keys = "pairs" THEN (i + 1) \div 2 ELSE 1)]

\* a request for 20 with the default ratio against 50 fetched documents
ScenarioDocs ==
    {MixedDocs(c[1], c[2], c[3], c[4], keys) :
        c \in {<<50, 0, 0, 0>>, <<6, 10, 4, 30>>, <<5, 10, 4, 31>>,
                <<20, 20, 10, 0>>, <<12, 20, 8, 10>>, <<0, 0, 0, 50>>},
        keys \in {"none", "pairs", "all"}}

\* requests for 1 and for 3 against buckets that hold every rounded share
ShareDocs ==
    {MixedDocs(c[1], c[2], c[3], c[4], "none") :
        c \in {<<1, 2, 1, 0>>, <<1, 1, 2, 0>>, <<2, 2, 2, 1>>}}

Ratios == {DifficultyRatio, [EASY |-> 5, MEDIUM |-> 5, HARD |-> 0]}

SelectCalls ==
    [fn : {"selectQuestions"}, docs : SmallDocs, count : 1..MaxCount,
     ratio : Ratios, recentlyUsed : {{}, {1}}, repoOk : BOOLEAN]
    \cup [fn : {"selectQuestions"}, docs : ScenarioDocs, count : {20},
          ratio : {DifficultyRatio}, recentlyUsed : {{}}, repoOk : {TRUE}]
    \cup [fn : {"selectQuestions"}, docs : ShareDocs, count : {1, 3},
          ratio : Ratios, recentlyUsed : {{}}, repoOk : {TRUE}]

\* the scheduler's own state while a function is exercised alone
Quiet ==
    /\ store = <<>>
    /\ usedLog = <<>>
    /\ clock = [day |-> 1, phase |-> 2]
    /\ tasks = [t \in Tasks |-> IdleTask]
    /\ nextId = 1
    /\ faults = 0
    /\ stamp = 1
    /\ delivered = {}

InitSelect ==
    /\ Quiet
    /\ call \in SelectCalls
    /\ ret = NoCall

\* one call of selectQuestions(options) and the list it resolves to
CallSelectQuestions ==
    /\ call.fn = "selectQuestions"
    /\ ret = NoCall
    /\ \E list \in SelectQuestionsOf(call.docs, call.count, call.ratio,
                                     call.recentlyUsed, call.repoOk) :
          ret' = [fn |-> "selectQuestions", value |-> list]
    /\ UNCHANGED <<store, usedLog, clock, tasks, nextId, faults, stamp, delivered, call>>

NextSelect == CallSelectQuestions

SpecSelect == InitSelect /\ [][NextSelect]_vars

Selected == ret # NoCall /\ ret.fn = "selectQuestions"

CountOf(list, level) == Cardinality({i \in 1..Len(list) : list[i].level = level})

\* no two entries of the list share a dedupeKey that is present
NoSharedKey(list) ==
    \A i, j \in 1..Len(list) :
        (i # j /\ list[i].key # NoKey) => list[i].key # list[j].key

\* C11: every list selectQuestions returns has at most count entries and no
\* two of them share a non-empty dedupeKey, whatever the count, the
\* difficultyRatio and the documents.
C11_AtMostCountNoSharedKey ==
    Selected => /\ Len(ret.value) <= call.count
                /\ NoSharedKey(ret.value)

\* the scenario of a request for 20 with the default ratio, 50 documents
\* fetched, none of them recently used
Scenario2050 ==
    /\ Selected
    /\ call.count = 20
    /\ Len(call.docs) = 50
    /\ call.ratio = DifficultyRatio
    /\ call.recentlyUsed = {}

SixTenFour(list) ==
    /\ CountOf(list, "EASY") = 6
    /\ CountOf(list, "MEDIUM") = 10
    /\ CountOf(list, "HARD") = 4
    /\ Len(list) = 20
    /\ NoSharedKey(list)

\* the documents left by the dedupeKey filter fill every bucket's share
BucketsFilled(docs) ==
    /\ CountOf(Dedupe(docs), "EASY") >= 6
    /\ CountOf(Dedupe(docs), "MEDIUM") >= 10
    /\ CountOf(Dedupe(docs), "HARD") >= 4

\* C17 (as claimed): asked for 20 with the default ratio, with 50 verified
\* documents fetched and none recently used, selectQuestions returns exactly
\* 6 EASY, 10 MEDIUM and 4 HARD questions, 20 in all, no dedupeKey shared.
C17_Always6_10_4 == Scenario2050 => SixTenFour(ret.value)

\* C17 (amended): the same, provided the 50 documents, once repeated
\* dedupeKeys are dropped, hold at least 6 EASY, 10 MEDIUM and 4 HARD ones.
C17_6_10_4WhenBucketsFilled ==
    (Scenario2050 /\ BucketsFilled(call.docs)) => SixTenFour(ret.value)

C17_Witness ==
    /\ Scenario2050
    /\ BucketsFilled(call.docs)
    /\ Len(Dedupe(call.docs)) < 50
    /\ SixTenFour(ret.value)

\* ================================== the used-question log and re-selection
\* the questions an iteration of the acquisition loop has just drawn
NewlyDrawn(t) ==
    (Range(tasks'[t].acc) \cup Range(tasks'[t].final) \cup tasks'[t].drawn)
        \ tasks[t].drawn

\* C12: no question selectQuestions returns is one the stored used-question
\* log records as used within the last AvoidRecentDays days at that moment.
C12_NeverRecentlyUsed ==
    [][\A t \in Tasks :
          tasks[t].pc = "attempt"
              => NewlyDrawn(t) \cap RecentlyUsed(usedLog, AvoidRecentDays, clock.day) = {}]_vars

\* C13: once runQuiz has reported the delivery of a question, no later
\* selectQuestions call of another session within the window returns it.
C13_DeliveredThenExcluded ==
    [][\A t \in Tasks : \A r \in delivered :
          (tasks[t].pc = "attempt" /\ r.id # tasks[t].sched.id)
              => NewlyDrawn(t) \cap Range(r.questions) = {}]_vars

\* ============================================ checkQuestionQuality, alone
\* What the oracle does with a request.  callMistral gives null when the key
\* is missing, fetch throws, the status is not OK or the content is empty;
\* otherwise the content, which is text that is not JSON, a JSON object, or
\* a JSON array whose items are verdicts or null.
Unavailable == {"no_key", "fetch_throws", "not_ok", "empty_content"}

NullItem == [null |-> TRUE, id |-> 0, approved |-> FALSE]

Verdict(id, approved) == [null |-> FALSE, id |-> id, approved |-> approved]

Items == {Verdict(id, a) : id \in 1..NumIds, a \in BOOLEAN} \cup {NullItem}

OracleReplies ==
    [kind : Unavailable \cup {"text", "object"}, items : {<<>>}]
    \cup [kind : {"array"}, items : UNION {[1..n -> Items] : n \in 0..MaxVerdicts}]

\* callMistral: the content string, or null
CallMistral(reply) ==
    IF reply.kind \in Unavailable THEN [null |-> TRUE, kind |-> "none", items |-> <<>>]
    ELSE [null |-> FALSE, kind |-> reply.kind, items |-> reply.items]

\* parseJsonResponse(response, []): text that does not parse gives the default
ParseJsonResponse(response) ==
    IF response.kind = "text" THEN [kind |-> "array", items |-> <<>>]
    ELSE [kind |-> response.kind, items |-> response.items]

\* new Map(results.map(r => [r.id, r])).get(id): the last item of that id
MapGet(items, id) ==
    LET hits == {i \in 1..Len(items) : items[i].id = id}
    IN IF hits = {} THEN NullItem
       ELSE items[CHOOSE i \in hits : \A j \in hits : j <= i]

\* (variant with a slip: a question without a verdict is rejected)
MissingVerdictRejects(id) == [id |-> id, approved |-> FALSE]

\* result || { id: q.id, approved: true }
MissingVerdict(id) == [id |-> id, approved |-> TRUE]

\* (variant with a slip: an unavailable oracle rejects the whole batch)
ApproveNone(questions) ==
    [threw |-> FALSE,
     results |-> [i \in 1..Len(questions) |-> [id |-> questions[i], approved |-> FALSE]]]

\* if (!response): every question of the batch is approved
ApproveAll(questions) ==
    [threw |-> FALSE,
     results |-> [i \in 1..Len(questions) |-> [id |-> questions[i], approved |-> TRUE]]]

\* a TypeError leaves checkQuestionQuality: results.map on a value that is
\* not an array, or r.id on a null item
Threw == [threw |-> TRUE, results |-> <<>>]

\* checkQuestionQuality(questions), for the ids of the questions
CheckQuestionQuality(questions, reply) ==
    IF questions = <<>> THEN [threw |-> FALSE, results |-> <<>>]
    ELSE LET response == CallMistral(reply)
         IN IF response.null THEN ApproveAll(questions)
            ELSE LET results == ParseJsonResponse(response)
                 IN IF results.kind # "array" THEN Threw
                    ELSE IF \E i \in 1..Len(results.items) : results.items[i].null
                    THEN Threw
                    ELSE [threw |-> FALSE,
                          results |-> [i \in 1..Len(questions) |->
                              LET result == MapGet(results.items, questions[i])
                              IN IF result.null THEN MissingVerdict(questions[i])
                                 ELSE [id |-> result.id, approved |-> result.approved]]]

\* the batches: up to MaxBatch distinct ids
Batches ==
    UNION {{q \in [1..n -> 1..NumIds] : \A i, j \in 1..n : i # j => q[i] # q[j]}
              : n \in 0..MaxBatch}

InitQuality ==
    /\ Quiet
    /\ call \in [fn : {"checkQuestionQuality"}, questions : Batches, reply : OracleReplies]
    /\ ret = NoCall

CallCheckQuestionQuality ==
    /\ call.fn = "checkQuestionQuality"
    /\ ret = NoCall
    /\ ret' = [fn |-> "checkQuestionQuality",
               value |-> CheckQuestionQuality(call.questions, call.reply)]
    /\ UNCHANGED <<store, usedLog, clock, tasks, nextId, faults, stamp, delivered, call>>

NextQuality == CallCheckQuestionQuality

SpecQuality == InitQuality /\ [][NextQuality]_vars

Checked == ret # NoCall /\ ret.fn = "checkQuestionQuality"

\* the reply holds a verdict for the id
HasVerdict(id) ==
    /\ call.reply.kind = "array"
    /\ \E i \in 1..Len(call.reply.items) :
          ~call.reply.items[i].null /\ call.reply.items[i].id = id

\* the approved flag of the reply's verdict for the id (of the last one,
\* when the reply repeats the id)
VerdictFor(id) ==
    LET hits == {i \in 1..Len(call.reply.items) : call.reply.items[i].id = id}
    IN call.reply.items[CHOOSE i \in hits : \A j \in hits : j <= i].approved

\* C15: what checkQuestionQuality returns holds one verdict per input
\* question, in input order: the reply's verdict for an id the reply
\* mentions, approved = true for an id it does not mention.
C15_OneVerdictPerQuestion ==
    (Checked /\ ~ret.value.threw)
        => /\ Len(ret.value.results) = Len(call.questions)
           /\ \A i \in 1..Len(call.questions) :
                 /\ ret.value.results[i].id = call.questions[i]
                 /\ ret.value.results[i].approved =
                       IF HasVerdict(call.questions[i])
                       THEN VerdictFor(call.questions[i]) ELSE TRUE

C15_Witness ==
    /\ Checked /\ ~ret.value.threw
    /\ Len(call.questions) = 2
    /\ HasVerdict(call.questions[2]) /\ ~ret.value.results[2].approved
    /\ call.reply.kind = "array" /\ ~HasVerdict(call.questions[1])
    /\ ret.value.results[1].approved

\* the oracle is unavailable, or its reply is not a JSON array of verdicts
Malformed ==
    \/ call.reply.kind \in Unavailable \cup {"text", "object"}
    \/ /\ call.reply.kind = "array"
       /\ \E i \in 1..Len(call.reply.items) : call.reply.items[i].null

\* C16: when the oracle is unavailable or its reply is malformed,
\* checkQuestionQuality does not throw and approves every question of the
\* batch.
C16_FailOpenOnBadReply ==
    (Checked /\ Malformed) => ret.value = ApproveAll(call.questions)

\* ============================================ getCorrectOptionIndex, alone
\* A string is a sequence of characters; these are the characters tried.
Chars == {"A", "C", "E", "X", "a", "c", "e", "x", " "}

\* String.prototype.toUpperCase / toLowerCase, character by character
UpperChar(c) ==
    CASE c = "a" -> "A" [] c = "c" -> "C" [] c = "e" -> "E" [] c = "x" -> "X"
      [] c = "h" -> "H" [] OTHER -> c

LowerChar(c) ==
    CASE c = "A" -> "a" [] c = "C" -> "c" [] c = "E" -> "e" [] c = "X" -> "x"
      [] c = "H" -> "h" [] OTHER -> c

ToUpperCase(s) == [i \in 1..Len(s) |-> UpperChar(s[i])]

ToLowerCase(s) == [i \in 1..Len(s) |-> LowerChar(s[i])]

RECURSIVE FirstInked(_, _)
\* the position of the first character from i on that is not a space
FirstInked(s, i) ==
    IF i > Len(s) \/ s[i] # " " THEN i ELSE FirstInked(s, i + 1)

RECURSIVE LastInked(_, _)
\* the position of the last character up to i that is not a space
LastInked(s, i) ==
    IF i < 1 \/ s[i] # " " THEN i ELSE LastInked(s, i - 1)

\* String.prototype.trim: the spaces at both ends go
Trim(s) ==
    IF FirstInked(s, 1) > Len(s) THEN <<>>
    ELSE SubSeq(s, FirstInked(s, 1), LastInked(s, Len(s)))

\* charCodeAt(0)
CharCode(c) ==
    CASE c = "A" -> 65 [] c = "C" -> 67 [] c = "E" -> 69 [] c = "X" -> 88
      [] c = "a" -> 97 [] c = "c" -> 99 [] c = "e" -> 101 [] c = "x" -> 120
      [] OTHER -> 32

\* String.prototype.includes
Includes(s, sub) ==
    \E k \in 0..(Len(s) - Len(sub)) : \A i \in 1..Len(sub) : s[k + i] = sub[i]

\* (variant with a slip: the letters are numbered from 1)
LetterIndexFromOne(answer) == CharCode(answer[1]) - 64

\* answer.charCodeAt(0) - 65
LetterIndex(answer) == CharCode(answer[1]) - 65

\* getCorrectOptionIndex(question), from correctAnswer and optionsEnglish
GetCorrectOptionIndex(correctAnswer, optionsEnglish) ==
    LET answer == Trim(ToUpperCase(correctAnswer))
        inRange == /\ Len(answer) = 1
                   /\ LetterIndex(answer) >= 0
                   /\ LetterIndex(answer) < Len(optionsEnglish)
        hits == {i \in 1..Len(optionsEnglish) :
                    Includes(ToLowerCase(optionsEnglish[i]), ToLowerCase(answer))}
    IN IF inRange THEN LetterIndex(answer)
       ELSE IF hits # {} THEN (CHOOSE i \in hits : \A j \in hits : i <= j) - 1
       ELSE 0

Strings(n) == UNION {[1..k -> Chars] : k \in 0..n}

Answers == Strings(MaxAnswerLen) \cup {<<" ", "c", " ">>, <<"E", " ", " ">>}

OptionTexts == {<<"x">>, <<"A", "x">>, <<"c", "e">>, <<"E">>}

InitIndex ==
    /\ Quiet
    /\ call \in [fn : {"getCorrectOptionIndex"}, correctAnswer : Answers,
                 optionsEnglish : UNION {[1..n -> OptionTexts] : n \in 1..MaxOptions}]
    /\ ret = NoCall

CallGetCorrectOptionIndex ==
    /\ call.fn = "getCorrectOptionIndex"
    /\ ret = NoCall
    /\ ret' = [fn |-> "getCorrectOptionIndex",
               value |-> GetCorrectOptionIndex(call.correctAnswer, call.optionsEnglish)]
    /\ UNCHANGED <<store, usedLog, clock, tasks, nextId, faults, stamp, delivered, call>>

NextIndex == CallGetCorrectOptionIndex

SpecIndex == InitIndex /\ [][NextIndex]_vars

Resolved == ret # NoCall /\ ret.fn = "getCorrectOptionIndex"

\* the designator as the claim reads it: trimmed, case folded
Designator == ToLowerCase(Trim(call.correctAnswer))

SingleLetter == Len(Designator) = 1 /\ Designator[1] \in {"a", "c", "e", "x"}

\* a -> 0, c -> 2, e -> 4, x -> 23
Position == CASE Designator[1] = "a" -> 0 [] Designator[1] = "c" -> 2
              [] Designator[1] = "e" -> 4 [] OTHER -> 23

\* the options that contain the designator, case folded
Containing ==
    {i \in 1..Len(call.optionsEnglish) :
        Includes(ToLowerCase(call.optionsEnglish[i]), Designator)}

BySubstringOrZero ==
    IF Containing # {}
    THEN ret.value = (CHOOSE i \in Containing : \A j \in Containing : i <= j) - 1
    ELSE ret.value = 0

VerdictReply(batch, rejected) ==
    [kind |-> "array",
     items |-> [i \in 1..Len(batch) |-> Verdict(batch[i], batch[i] \notin rejected)]]

\* How the gate behaves in a run: "approve" approves every candidate, "down"
\* has every oracle request throw, "any" gives any verdicts or a JSON
\* object, "window" rejects size candidates of the first batch from position
\* from on and approves the rest.
GateReplies(gate, batch, attempt) ==
    CASE gate.mode = "down" -> {[kind |-> "fetch_throws", items |-> <<>>]}
      [] gate.mode = "approve" -> {VerdictReply(batch, {})}
      [] gate.mode = "any" ->
            {VerdictReply(batch, R) : R \in SUBSET Range(batch)}
                \cup {[kind |-> "object", items |-> <<>>]}
      [] OTHER ->
            IF attempt = 1
            THEN {VerdictReply(batch, {batch[i] : i \in
                        {j \in 1..Len(batch) : j >= gate.from /\ j < gate.from + gate.size}})}
            ELSE {VerdictReply(batch, {})}

Gate(mode, from, size) == [mode |-> mode, from |-> from, size |-> size]

\* small pools against small targets under every gate, the two scenarios
\* with a target of 20, and, under any verdicts, pools whose documents share
\* dedupeKeys in pairs and runs in which the repository query may throw
LoopCalls ==
    [fn : {"executeScheduledQuiz"},
     docs : {MixedDocs(0, 0, 0, p, "none") : p \in 0..MaxPool},
     questionCount : 1..MaxCount,
     repo : {"up"},
     gate : {Gate("any", 0, 0), Gate("approve", 0, 0), Gate("down", 0, 0)}]
    \cup [fn : {"executeScheduledQuiz"},
          docs : {MixedDocs(0, 0, 0, p, keys) : p \in 2..MaxPool, keys \in {"none", "pairs"}},
          questionCount : 1..MaxCount,
          repo : {"up", "throws"},
          gate : {Gate("any", 0, 0)}]
    \cup [fn : {"executeScheduledQuiz"},
          docs : {MixedDocs(0, 0, 0, p, "none") : p \in {10, 30, 32}},
          questionCount : {20},
          repo : {"up"},
          gate : {Gate("approve", 0, 0), Gate("down", 0, 0)}
                    \cup {Gate("window", w, k) : w \in {1, 13, 26}, k \in {5, 11}}]

InitLoop ==
    /\ store = <<>>
    /\ usedLog = <<>>
    /\ clock = [day |-> 1, phase |-> 2]
    /\ call \in LoopCalls
    /\ tasks = [t \in Tasks |->
                  IF t = 1
                  THEN [IdleTask EXCEPT !.pc = "attempt", !.kind = "test", !.date = 1,
                          !.time = "20:00", !.req = "in_progress",
                          !.sched = NewSchedule(1, 1, "20:00", call.questionCount)]
                  ELSE IdleTask]
    /\ nextId = 2
    /\ faults = 0
    /\ stamp = 1
    /\ delivered = {}
    /\ ret = [fn |-> "executeScheduledQuiz", calls |-> 0, requested |-> <<>>,
              rejected |-> <<>>, sent |-> 0, prior |-> {}, batch |-> <<>>,
              drawn |-> {}, accepted |-> 0, exit |-> "", refused |-> {},
              repoOk |-> TRUE]

QuestionIds(list) == [i \in 1..Len(list) |-> list[i].id]

\* collection.find(filter, { limit }) without a sort: the matching documents
\* in an order the query does not fix (of a list longer than MaxShuffle the
\* list itself, its reverse and its rotation)
Find(docs) == ShuffleArray(docs)

\* how an iteration leaves the loop, if it does: the break of line 161, the
\* throw of checkQuestionQuality, the break of line 190, or the while guard
LoopExit(tk, newQuestions, verdict) ==
    IF newQuestions = <<>> THEN "nothing_new"
    ELSE IF verdict.threw THEN "threw"
    ELSE LET n == Len(tk.acc) + Len(SelectSeq(newQuestions, LAMBDA q : q \in verdict.approved))
         IN IF n >= tk.sched.questionCount THEN "enough"
            ELSE IF tk.attempt >= MaxAttempts THEN "attempts"
            ELSE ""

ApprovedIds(results) == {results[i].id : i \in {j \in 1..Len(results) : results[j].approved}}

\* one iteration of the loop, lines 142-194
LoopAttempt ==
    /\ call.fn = "executeScheduledQuiz"
    /\ tasks[1].pc = "attempt"
    /\ LET tk == tasks[1]
           needed == tk.sched.questionCount - Len(tk.acc)
           fetchCount == FetchCount(needed)
           recent == RecentlyUsed(GetValue(usedLog, <<>>, TRUE), AvoidRecentDays, clock.day)
       IN \E repoOk \in (IF call.repo = "throws" THEN BOOLEAN ELSE {TRUE}) :
          \E fetched \in Find(call.docs) :
          \E list \in SelectQuestionsOf(fetched, fetchCount, DifficultyRatio, recent, repoOk) :
            LET questions == QuestionIds(list)
                newQuestions == NewQuestions(questions, tk.drawn)
                tk1 == [tk EXCEPT !.attempt = @ + 1,
                                  !.drawn = @ \cup Range(newQuestions)]
            IN IF NoNewQuestions(newQuestions)
               THEN /\ Set(1, AfterLoop(tk1))
                    /\ ret' = [ret EXCEPT !.calls = @ + 1, !.repoOk = repoOk,
                                          !.requested = Append(@, fetchCount),
                                          !.rejected = Append(@, 0),
                                          !.prior = tk.drawn, !.batch = newQuestions,
                                          !.accepted = Len(tk.acc),
                                          !.exit = LoopExit(tk1, newQuestions,
                                                    [threw |-> FALSE, approved |-> {}])]
               ELSE \E reply \in GateReplies(call.gate, newQuestions, tk1.attempt) :
                      LET quality == CheckQuestionQuality(newQuestions, reply)
                          approved == ApprovedIds(quality.results)
                      IN /\ Set(1, AfterQuality(tk1, newQuestions,
                                      [threw |-> quality.threw, approved |-> approved]))
                         /\ ret' = [ret EXCEPT !.calls = @ + 1, !.repoOk = repoOk,
                                      !.requested = Append(@, fetchCount),
                                      !.rejected = Append(@, Len(newQuestions)
                                                             - Cardinality(approved)),
                                      !.prior = tk.drawn, !.batch = newQuestions,
                                      !.drawn = tk1.drawn,
                                      !.refused =
                                          IF quality.threw THEN @
                                          ELSE @ \cup (Range(newQuestions) \ approved),
                                      !.accepted =
                                          IF quality.threw THEN Len(tk.acc)
                                          ELSE Len(tk.acc) + Cardinality(approved),
                                      !.exit = LoopExit(tk1, newQuestions,
                                                [threw |-> quality.threw,
                                                 approved |-> approved])]
    /\ UNCHANGED <<store, usedLog, clock, nextId, faults, stamp, delivered, call>>

\* runQuiz(schedule, finalQuestions) and the branch taken on its report
LoopDeliver ==
    /\ call.fn = "executeScheduledQuiz"
    /\ tasks[1].pc = "run_quiz"
    /\ \E startOk \in BOOLEAN, completeOk \in BOOLEAN :
        LET tk == tasks[1]
            n == Len(tk.final)
            result == RunQuizResult(~(startOk /\ completeOk))
        IN /\ Set(1, AfterRun(IF startOk
                              THEN [tk EXCEPT !.startSent = TRUE, !.qi = n,
                                              !.completeSent = completeOk]
                              ELSE tk, result))
           /\ delivered' = Reported(tk, result)
           /\ ret' = [ret EXCEPT !.sent = IF result = "ok" THEN n ELSE 0]
    /\ UNCHANGED <<store, usedLog, clock, nextId, faults, stamp, call>>

NextLoop == LoopAttempt \/ LoopDeliver

SpecLoop == InitLoop /\ [][NextLoop]_vars

\* the loop of activation 1 is over
LoopOver == tasks[1].pc # "attempt"

Distinct(list) == \A i, j \in 1..Len(list) : i # j => list[i] # list[j]

\* C14: the acquisition loop calls selectQuestions at most MaxAttempts (3)
\* times, and the list handed to delivery has at most questionCount entries.
C14_ThreeAttemptsAtMostCount ==
    /\ ret.calls <= MaxAttempts
    /\ tasks[1].attempt <= MaxAttempts
    /\ Len(tasks[1].final) <= tasks[1].sched.questionCount

C14_Witness ==
    /\ ret.calls = MaxAttempts
    /\ tasks[1].pc = "run_quiz"
    /\ Len(tasks[1].final) = tasks[1].sched.questionCount

\* the scenario: a target of 20, at least 30 eligible questions, and a gate
\* that rejects 5 candidates of the first batch
Scenario20Reject5 ==
    /\ call.questionCount = 20
    /\ Len(call.docs) >= 30
    /\ call.gate.mode = "window" /\ call.gate.size = 5
    /\ LoopOver

\* C18 (as claimed): in that scenario the loop makes a second attempt that
\* requests the shortfall, and the final list has exactly 20 questions, none
\* repeated.
C18_SecondAttemptForShortfall ==
    Scenario20Reject5
        => /\ ret.rejected[1] = 5
           /\ ret.calls = 2
           /\ Len(tasks[1].final) = 20
           /\ Distinct(tasks[1].final)

\* C18 (amended): in that scenario the first attempt requests 30, its 25
\* approved candidates already cover the target, so the loop ends after one
\* attempt with exactly 20 questions, none repeated.  A second attempt is
\* made only when the first batch leaves fewer than 20 approved, and it
\* then requests ceil(1.5 * shortfall).
C18_OneAttemptSuffices ==
    /\ Scenario20Reject5
          => /\ ret.requested = <<30>> /\ ret.rejected = <<5>>
             /\ ret.calls = 1
             /\ tasks[1].pc \in {"run_quiz", "mark_load", "upd_load"}
             /\ tasks[1].outcome # "zero"
             /\ Len(tasks[1].final) = 20
             /\ Distinct(tasks[1].final)
    /\ (call.questionCount = 20 /\ Len(call.docs) >= 30 /\ ret.calls >= 2)
          => /\ ret.requested[1] = 30
             /\ 30 - ret.rejected[1] < 20
             /\ ret.requested[2] = FetchCount(20 - (30 - ret.rejected[1]))

C18_Witness ==
    /\ Scenario20Reject5
    /\ ret.rejected = <<5>>
    /\ tasks[1].pc = "run_quiz"
    /\ Len(tasks[1].final) = 20

\* every candidate ends up approved: the gate approves them, or every
\* request to the oracle throws
AllApproved == call.gate.mode \in {"approve", "down"}

Repeat(c, n) == [i \in 1..n |-> c]

Ellipsis == <<".", ".", ".">>

\* String.prototype.substring(0, end)
Substring(s, end) ==
    SubSeq(s, 1, IF end < 0 THEN 0 ELSE Min(end, Len(s)))

\* (variant with a slip: the cut keeps maxLength units before the marker)
TruncateKeepsLimit(text, maxLength) ==
    IF Len(text) <= maxLength THEN text ELSE Substring(text, maxLength) \o Ellipsis

\* truncate(text, maxLength)
Truncate(text, maxLength) ==
    IF Len(text) <= maxLength THEN text
    ELSE Substring(text, maxLength - 3) \o Ellipsis

\* the replace(...) chain of formatExplanation: every "*" and "_" goes
StripMarkdown(explanation) ==
    SelectSeq(explanation, LAMBDA c : c \notin {"*", "_"})

\* formatExplanation(explanation)
FormatExplanation(explanation) == Truncate(Trim(StripMarkdown(explanation)), 200)

DigitChar(d) == <<"0", "1", "2", "3", "4", "5", "6", "7", "8", "9">>[d + 1]

RECURSIVE Decimal(_)
\* a number inside a template literal
Decimal(n) ==
    IF n < 10 THEN <<DigitChar(n)>> ELSE Decimal(n \div 10) \o <<DigitChar(n % 10)>>

\* the first argument of truncate at quiz-bot.ts line 150; the heading word
\* is six code units of Devanagari
HindiText(question, index, total) ==
    <<"u092A", "u094D", "u0930", "u0936", "u094D", "u0928", " ">>
        \o Decimal(index) \o <<"/">> \o Decimal(total) \o <<"\n", "\n">>
        \o question.hindiText

\* the first argument of truncate at quiz-bot.ts line 177
EnglishText(question, index, total) ==
    <<"Q", "u", "e", "s", "t", "i", "o", "n", " ">>
        \o Decimal(index) \o <<"/">> \o Decimal(total) \o <<"\n", "\n">>
        \o question.englishText

HindiQuestion(question, index, total) ==
    Truncate(HindiText(question, index, total), 300)

EnglishQuestion(question, index, total) ==
    Truncate(EnglishText(question, index, total), 300)

\* options.map(opt => truncate(opt, 100))
PollOptions(options) == [i \in 1..Len(options) |-> Truncate(options[i], 100)]

\* the arguments of bot.api.sendPoll; an empty explanation stands for the
\* undefined that `explanation || undefined` passes
HindiPoll(question, index, total) ==
    [lang |-> "hindi", index |-> index,
     question |-> HindiQuestion(question, index, total),
     options |-> PollOptions(question.optionsHindi),
     correct_option_id |->
         GetCorrectOptionIndex(question.correctAnswer, question.optionsEnglish),
     explanation |-> FormatExplanation(question.explanationHindi),
     sent |-> "pending"]

EnglishPoll(question, index, total) ==
    [lang |-> "english", index |-> index,
     question |-> EnglishQuestion(question, index, total),
     options |-> PollOptions(question.optionsEnglish),
     correct_option_id |->
         GetCorrectOptionIndex(question.correctAnswer, question.optionsEnglish),
     explanation |-> FormatExplanation(question.explanationEnglish),
     sent |-> "pending"]

HindiMarkers ==
    {<<"h", "i", "n", "d", "i">>,
     <<"u0939", "u093F", "u0902", "u0926", "u0940">>,
     <<"u0939", "u093F", "u0928", "u094D", "u0926", "u0940">>}

EnglishMarkers ==
    {<<"e", "n", "g", "l", "i", "s", "h">>,
     <<"u0905", "u0902", "u0917", "u094D", "u0930", "u0947", "u091C", "u0940">>,
     <<"u0905", "u0902", "u0917", "u094D", "u0930", "u0947", "u091C", "u093C", "u0940">>}

\* detectSubjectLanguage(subjectName)
DetectSubjectLanguage(subjectName) ==
    LET lower == ToLowerCase(subjectName)
    IN IF \E m \in HindiMarkers : Includes(lower, m) THEN "hindi"
       ELSE IF \E m \in EnglishMarkers : Includes(lower, m) THEN "english"
       ELSE "bilingual"

\* the value setQuizLanguageMode(subjectNames) stores in currentQuizLanguage
SetQuizLanguageMode(subjectNames) ==
    LET marked == {i \in 1..Len(subjectNames) :
                      DetectSubjectLanguage(subjectNames[i]) # "bilingual"}
    IN IF marked = {} THEN "bilingual"
       ELSE DetectSubjectLanguage(
                subjectNames[CHOOSE i \in marked : \A j \in marked : i <= j])

Plain(n) == Repeat("x", n)

QuestionDoc(id, text, options, explanationHindi, explanationEnglish) ==
    [_id |-> id, hindiText |-> text, englishText |-> text,
     optionsHindi |-> options, optionsEnglish |-> options,
     correctAnswer |-> <<"A">>,
     explanationHindi |-> explanationHindi,
     explanationEnglish |-> explanationEnglish]

\* 1: every field short, an English explanation with markup and a trailing
\* space; 2: an English question text of exactly 300 units once headed, an
\* option of 100 and one of 101 units, explanations of 200 and 201 units;
\* 3: everything over the limits, and an English explanation of 205 units
\* of which 6 are markup
QuestionDocs ==
    <<QuestionDoc(1, Plain(4), <<Plain(2), <<"A", "x">>>>, <<>>,
                  <<"*", "*", "x", "_", "x", "*", "*", " ">>),
      QuestionDoc(2, Plain(286), <<Plain(100), Plain(101)>>, Plain(200), Plain(201)),
      QuestionDoc(3, Plain(320), <<Plain(150), Plain(99)>>, Plain(250),
                  Repeat("*", 6) \o Plain(199))>>

SubjectNames ==
    {<<"M", "a", "t", "h">>,
     <<"H", "i", "n", "d", "i", " ", "x">>,
     <<"E", "n", "g", "l", "i", "s", "h">>,
     <<"u0939", "u093F", "u0902", "u0926", "u0940">>}

\* the lists of at most n documents, in the order of their ids
QuestionLists(n) ==
    {l \in UNION {[1..k -> 1..Len(QuestionDocs)] : k \in 1..n} :
        \A i, j \in 1..Len(l) : i < j => l[i] < l[j]}

\* the sessions of task 1: any subject names, any list of documents
MainSessions ==
    {[subjectNames |-> names, questions |-> [i \in 1..Len(l) |-> QuestionDocs[l[i]]]] :
        names \in {<<a>> : a \in SubjectNames}
                  \cup {<<<<"M", "a", "t", "h">>, <<"E", "n", "g", "l", "i", "s", "h">>,
                          <<"H", "i", "n", "d", "i", " ", "x">>>>},
        l \in QuestionLists(MaxSession)}

\* the sessions of the other tasks: one short question
OtherSessions ==
    {[subjectNames |-> <<a>>, questions |-> <<QuestionDocs[1]>>] : a \in SubjectNames}

IdleRun ==
    [pc |-> "idle", i |-> 0, questionsSent |-> 0, polls |-> <<>>,
     start |-> "none", complete |-> "none", result |-> NoCall]

InitSession ==
    /\ Quiet
    /\ call \in {[fn |-> "runQuiz",
                  sessions |-> [t \in Tasks |-> IF t = 1 THEN a ELSE b]] :
                    a \in MainSessions, b \in OtherSessions}
    /\ ret = [fn |-> "runQuiz", currentQuizLanguage |-> "bilingual",
              runs |-> [t \in Tasks |-> IdleRun]]

SessionQuestions(t) == call.sessions[t].questions

SetRun(t, run) == ret' = [ret EXCEPT !.runs[t] = run]

\* bot.api.sendPoll / sendMessage settles: resolved, or rejected while the
\* fault budget lasts
Gateway(ok) ==
    /\ ok \in BOOLEAN
    /\ ~ok => faults < MaxFaults
    /\ faults' = IF ok THEN faults ELSE faults + 1

Settled(polls, ok) ==
    [polls EXCEPT ![Len(polls)].sent = IF ok THEN "ok" ELSE "failed"]

\* (variant with a slip: a rejected poll send is rethrown into runQuiz)
PollFailureAborts(run, ok) ==
    IF ~ok THEN [run EXCEPT !.pc = "done", !.result = [success |-> FALSE, questionsSent |-> 0]]
    ELSE run

\* the catch blocks of sendQuestionPoll: the rejection is logged and dropped
PollFailureLogged(run, ok) == run

\* sendQuestionPoll returns into the loop of runQuiz: questionsSent++, then
\* the interval before the next question or the pause before the summary
Returned(run, total) ==
    [run EXCEPT !.questionsSent = @ + 1,
                !.i = @ + 1,
                !.pc = IF run.i < total - 1 THEN "waiting" ELSE "closing"]

\* sendQuestionPoll from line 175 on, under the mode read there
EnglishPart(run, t, lang) ==
    IF lang \in {"bilingual", "english"}
    THEN [run EXCEPT !.pc = "english",
                     !.polls = Append(@, EnglishPoll(SessionQuestions(t)[run.i + 1],
                                                     run.i + 1, Len(SessionQuestions(t))))]
    ELSE Returned(run, Len(SessionQuestions(t)))

\* runQuiz up to its first await: the mode is set, the start message goes out
RunQuizBegin(t) ==
    /\ call.fn = "runQuiz"
    /\ ret.runs[t].pc = "idle"
    /\ ret' = [ret EXCEPT
                 !.currentQuizLanguage = SetQuizLanguageMode(call.sessions[t].subjectNames),
                 !.runs[t].pc = "starting",
                 !.runs[t].start = "pending"]
    /\ UNCHANGED <<store, usedLog, clock, tasks, nextId, faults, stamp, delivered, call>>

\* sendQuizStartMessage settles: on to the 3 s pause, or into the catch
StartSettled(t) ==
    /\ call.fn = "runQuiz"
    /\ ret.runs[t].pc = "starting"
    /\ \E ok \in BOOLEAN :
          /\ Gateway(ok)
          /\ SetRun(t, IF ok
                       THEN [ret.runs[t] EXCEPT !.pc = "waiting", !.start = "sent"]
                       ELSE [ret.runs[t] EXCEPT
                               !.pc = "done", !.start = "failed",
                               !.result = [success |-> FALSE, questionsSent |-> 0]])
    /\ UNCHANGED <<store, usedLog, clock, tasks, nextId, stamp, delivered, call>>

\* a pause of the loop ends: the next question enters sendQuestionPoll, which
\* reads the mode at line 148 and hands its first poll to the gateway
EnterPoll(t) ==
    /\ call.fn = "runQuiz"
    /\ ret.runs[t].pc = "waiting"
    /\ LET run == ret.runs[t]
           total == Len(SessionQuestions(t))
           lang == ret.currentQuizLanguage
       IN SetRun(t, IF run.i >= total THEN [run EXCEPT !.pc = "closing"]
                    ELSE IF lang \in {"bilingual", "hindi"}
                    THEN [run EXCEPT !.pc = "hindi",
                                     !.polls = Append(@, HindiPoll(SessionQuestions(t)[run.i + 1],
                                                                   run.i + 1, total))]
                    ELSE EnglishPart(run, t, lang))
    /\ UNCHANGED <<store, usedLog, clock, tasks, nextId, faults, stamp, delivered, call>>

\* the Hindi sendPoll settles; the mode is read again at line 169 and, with
\* no await in between, at line 175
HindiSettled(t) ==
    /\ call.fn = "runQuiz"
    /\ ret.runs[t].pc = "hindi"
    /\ \E ok \in BOOLEAN :
          /\ Gateway(ok)
          /\ LET run == PollFailureLogged(
                            [ret.runs[t] EXCEPT !.polls = Settled(@, ok)], ok)
                 lang == ret.currentQuizLanguage
             IN SetRun(t, IF run.pc = "done" THEN run
                          ELSE IF lang = "bilingual" THEN [run EXCEPT !.pc = "between"]
                          ELSE EnglishPart(run, t, lang))
    /\ UNCHANGED <<store, usedLog, clock, tasks, nextId, stamp, delivered, call>>

\* delayBetweenLanguages is over; the mode is read at line 175
BetweenDone(t) ==
    /\ call.fn = "runQuiz"
    /\ ret.runs[t].pc = "between"
    /\ SetRun(t, EnglishPart(ret.runs[t], t, ret.currentQuizLanguage))
    /\ UNCHANGED <<store, usedLog, clock, tasks, nextId, faults, stamp, delivered, call>>

\* the English sendPoll settles and sendQuestionPoll returns
EnglishSettled(t) ==
    /\ call.fn = "runQuiz"
    /\ ret.runs[t].pc = "english"
    /\ \E ok \in BOOLEAN :
          /\ Gateway(ok)
          /\ LET run == PollFailureLogged(
                            [ret.runs[t] EXCEPT !.polls = Settled(@, ok)], ok)
             IN SetRun(t, IF run.pc = "done" THEN run
                          ELSE Returned(run, Len(SessionQuestions(t))))
    /\ UNCHANGED <<store, usedLog, clock, tasks, nextId, stamp, delivered, call>>

\* the 3 s pause after the loop is over: sendQuizCompleteMessage goes out
Closing(t) ==
    /\ call.fn = "runQuiz"
    /\ ret.runs[t].pc = "closing"
    /\ SetRun(t, [ret.runs[t] EXCEPT !.pc = "completing", !.complete = "pending"])
    /\ UNCHANGED <<store, usedLog, clock, tasks, nextId, faults, stamp, delivered, call>>

\* sendQuizCompleteMessage settles: runQuiz returns
CompleteSettled(t) ==
    /\ call.fn = "runQuiz"
    /\ ret.runs[t].pc = "completing"
    /\ \E ok \in BOOLEAN :
          /\ Gateway(ok)
          /\ SetRun(t, IF ok
                       THEN [ret.runs[t] EXCEPT
                               !.pc = "done", !.complete = "sent",
                               !.result = [success |-> TRUE,
                                           questionsSent |-> ret.runs[t].questionsSent]]
                       ELSE [ret.runs[t] EXCEPT
                               !.pc = "done", !.complete = "failed",
                               !.result = [success |-> FALSE, questionsSent |-> 0]])
    /\ UNCHANGED <<store, usedLog, clock, tasks, nextId, stamp, delivered, call>>

NextSession ==
    \E t \in Tasks :
        \/ RunQuizBegin(t)
        \/ StartSettled(t)
        \/ EnterPoll(t)
        \/ HindiSettled(t)
        \/ BetweenDone(t)
        \/ EnglishSettled(t)
        \/ Closing(t)
        \/ CompleteSettled(t)

SpecSession == InitSession /\ [][NextSession]_vars

\* ---- C21: the fields of a poll and the gateway's limits

\* the poll each session handed to the gateway last, as <<task, position>>;
\* polls are appended one at a time, so every poll is the last one in the
\* state that follows its hand-over
Handed == {<<t, Len(ret.runs[t].polls)>> : t \in {u \in Tasks : ret.runs[u].polls # <<>>}}

PollOf(h) == ret.runs[h[1]].polls[h[2]]

DocOf(h) == SessionQuestions(h[1])[PollOf(h).index]

\* the three kinds of field before rendering: the headed question text, the
\* options, the explanation as stored
SourceQuestion(h) ==
    IF PollOf(h).lang = "hindi"
    THEN HindiText(DocOf(h), PollOf(h).index, Len(SessionQuestions(h[1])))
    ELSE EnglishText(DocOf(h), PollOf(h).index, Len(SessionQuestions(h[1])))

SourceOptions(h) ==
    IF PollOf(h).lang = "hindi" THEN DocOf(h).optionsHindi ELSE DocOf(h).optionsEnglish

SourceExplanation(h) ==
    IF PollOf(h).lang = "hindi" THEN DocOf(h).explanationHindi
    ELSE DocOf(h).explanationEnglish

EndsWithMarker(s) == Len(s) >= 3 /\ SubSeq(s, Len(s) - 2, Len(s)) = <<".", ".", ".">>

\* a field over its limit is cut to the limit and ends with the marker; a
\* field within its limit keeps its length
CutOrKept(source, field, limit) ==
    IF Len(source) > limit THEN Len(field) = limit /\ EndsWithMarker(field)
    ELSE Len(field) = Len(source)

WithinLimits(poll) ==
    /\ Len(poll.question) <= 300
    /\ \A i \in 1..Len(poll.options) : Len(poll.options[i]) <= 100
    /\ Len(poll.explanation) <= 200

\* C21 (as claimed): every poll handed to the gateway has a question of at
\* most 300 units, options of at most 100 and an explanation of at most 200;
\* each of these fields, when longer than its limit, is cut to exactly the
\* limit and ends with "...", and otherwise goes out with its length
\* unchanged.
C21_EveryFieldCutOrKept ==
    call.fn = "runQuiz" =>
        \A h \in Handed :
            /\ WithinLimits(PollOf(h))
            /\ CutOrKept(SourceQuestion(h), PollOf(h).question, 300)
            /\ Len(PollOf(h).options) = Len(SourceOptions(h))
            /\ \A i \in 1..Len(SourceOptions(h)) :
                   CutOrKept(SourceOptions(h)[i], PollOf(h).options[i], 100)
            /\ CutOrKept(SourceExplanation(h), PollOf(h).explanation, 200)

\* the explanation once its "*" and "_" are removed and its ends trimmed
Cleaned(h) == Trim(SelectSeq(SourceExplanation(h), LAMBDA c : c # "*" /\ c # "_"))

\* C21 (amended): every poll handed to the gateway is within the limits
\* 300 / 100 / 200; the headed question text and every option, when over the
\* limit, are cut to exactly the limit ending with "...", and otherwise go
\* out unchanged; the explanation first loses every "*" and "_" and its
\* outer spaces, and what is left is cut to 200 ending with "..." when it is
\* longer than 200 and goes out unchanged otherwise.
C21_CutOrKeptAfterCleaning ==
    call.fn = "runQuiz" =>
        \A h \in Handed :
            /\ WithinLimits(PollOf(h))
            /\ CutOrKept(SourceQuestion(h), PollOf(h).question, 300)
            /\ Len(SourceQuestion(h)) <= 300 => PollOf(h).question = SourceQuestion(h)
            /\ Len(PollOf(h).options) = Len(SourceOptions(h))
            /\ \A i \in 1..Len(SourceOptions(h)) :
                   /\ CutOrKept(SourceOptions(h)[i], PollOf(h).options[i], 100)
                   /\ Len(SourceOptions(h)[i]) <= 100
                          => PollOf(h).options[i] = SourceOptions(h)[i]
            /\ CutOrKept(Cleaned(h), PollOf(h).explanation, 200)
            /\ Len(Cleaned(h)) <= 200 => PollOf(h).explanation = Cleaned(h)

\* a session has handed over a poll whose question text and an option were
\* cut, and a poll whose explanation carried markup
C21_Witness ==
    /\ call.fn = "runQuiz"
    /\ \E h \in Handed :
          /\ Len(SourceQuestion(h)) > 300
          /\ Len(PollOf(h).question) = 300
          /\ \E i \in 1..Len(SourceOptions(h)) : Len(SourceOptions(h)[i]) > 100
          /\ Len(SourceExplanation(h)) > 200
    /\ \E h \in Handed :
          /\ Len(Cleaned(h)) < Len(SourceExplanation(h))
          /\ Len(PollOf(h).explanation) = Len(Cleaned(h))

\* ---- C22: a rejected poll does not end the session

Finished(t) == call.fn = "runQuiz" /\ ret.runs[t].pc = "done"

\* the questions, by position, for which the session handed over a poll
Attempted(t) == {ret.runs[t].polls[k].index : k \in 1..Len(ret.runs[t].polls)}

InListOrder(t) ==
    \A j, k \in 1..Len(ret.runs[t].polls) :
        j < k => ret.runs[t].polls[j].index <= ret.runs[t].polls[k].index

SomePollFailed(t) ==
    \E k \in 1..Len(ret.runs[t].polls) : ret.runs[t].polls[k].sent = "failed"

\* C22: whatever polls the gateway rejects, a session whose start
\* announcement went out attempts every question of its list, in list
\* order, and then sends the completion summary; runQuiz reports failure
\* exactly when the start announcement or the completion summary failed,
\* and success otherwise.
C22_PollFailureDoesNotAbort ==
    call.fn = "runQuiz" =>
        \A t \in Tasks :
            /\ InListOrder(t)
            /\ Finished(t) =>
                  /\ ret.runs[t].start = "sent" =>
                        /\ Attempted(t) = 1..Len(SessionQuestions(t))
                        /\ ret.runs[t].complete \in {"sent", "failed"}
                  /\ ret.runs[t].result.success
                        <=> (ret.runs[t].start = "sent" /\ ret.runs[t].complete = "sent")
                  /\ ~ret.runs[t].result.success
                        <=> (ret.runs[t].start = "failed" \/ ret.runs[t].complete = "failed")

\* a session of two questions whose first poll was rejected has gone on to
\* the second question and the summary, and reported success
C22_Witness ==
    \E t \in Tasks :
        /\ Finished(t)
        /\ Len(SessionQuestions(t)) = 2
        /\ ret.runs[t].polls # <<>>
        /\ ret.runs[t].polls[1].sent = "failed"
        /\ Attempted(t) = {1, 2}
        /\ ret.runs[t].complete = "sent"
        /\ ret.runs[t].result.success

\* ---- C23: the language mode of a session

ModeOf(t) == SetQuizLanguageMode(call.sessions[t].subjectNames)

\* the languages of the polls a session handed over for question k, in order
LangsOf(t, k) ==
    LET mine == SelectSeq(ret.runs[t].polls, LAMBDA p : p.index = k)
    IN [j \in 1..Len(mine) |-> mine[j].lang]

\* the polls of session t follow mode m: one language only, or for every
\* question gone through the Hindi poll and then the English poll
Follows(t, m) ==
    IF m = "bilingual"
    THEN \A k \in 1..ret.runs[t].i : LangsOf(t, k) = <<"hindi", "english">>
    ELSE \A k \in 1..Len(ret.runs[t].polls) : ret.runs[t].polls[k].lang = m

\* C23: every poll of a session follows the mode that the session's subject
\* names decide (first marked name, else bilingual), also when another
\* session starts while this one is running.
C23_SessionKeepsItsLanguage ==
    call.fn = "runQuiz" => \A t \in Tasks : Follows(t, ModeOf(t))

\* C23, one session at a time: while no other session has started, the
\* polls of the running session follow its mode.
C23_AloneKeepsItsLanguage ==
    call.fn = "runQuiz" =>
        \A t \in Tasks :
            (\A u \in Tasks \ {t} : ret.runs[u].pc = "idle") => Follows(t, ModeOf(t))

\* ---- C25: the count runQuiz reports

\* the questions for which the gateway accepted a poll
Delivered(t) ==
    {ret.runs[t].polls[k].index :
        k \in {j \in 1..Len(ret.runs[t].polls) : ret.runs[t].polls[j].sent = "ok"}}

\* C25: on success, questionsSent equals the number of questions for which
\* a poll was delivered to the gateway.
C25_QuestionsSentIsDelivered ==
    call.fn = "runQuiz" =>
        \A t \in Tasks :
            (Finished(t) /\ ret.runs[t].result.success)
                => ret.runs[t].result.questionsSent = Cardinality(Delivered(t))

\* C25, what the code counts: on success, questionsSent is the number of
\* questions of the list, delivered or not.
C25_QuestionsSentIsListLength ==
    call.fn = "runQuiz" =>
        \A t \in Tasks :
            (Finished(t) /\ ret.runs[t].result.success)
                => ret.runs[t].result.questionsSent = Len(SessionQuestions(t))

\* ---------------------------------------------------------------------
\* The fallback of checkAndExecuteQuiz: getScheduleFor, then autoGenerateQuiz
\* with its createSchedule, up to the call of executeScheduledQuiz.

Chapter(id, subjectId) == [_id |-> id, subjectId |-> subjectId]

\* the chapters collection: k chapters of subject 1, then j of subject 2
ChaptersOf(k, j) ==
    [i \in 1..(k + j) |-> IF i <= k THEN Chapter(i, 1) ELSE Chapter(i, 2)]

\* getSubjects() / getChapters(): the active documents, or [] when the
\* repository request fails
GetActive(documents, ok) == IF ok THEN documents ELSE <<>>

\* chapters.filter(c => c.subjectId === randomSubject._id)
SubjectChapters(chapters, subject) ==
    SelectSeq(chapters, LAMBDA c : c.subjectId = subject)

\* (variant with a slip: the chapters are not cut to three)
SelectedChaptersUncut(subjectChapters) ==
    {s \in [1..Len(subjectChapters) -> Range(subjectChapters)] :
        \A i, j \in 1..Len(s) : i # j => s[i] # s[j]}

\* subjectChapters.sort(() => Math.random() - 0.5).slice(0, 3): the first
\* three of any order of the chapters
SelectedChapters(subjectChapters) ==
    {s \in [1..Min(3, Len(subjectChapters)) -> Range(subjectChapters)] :
        \A i, j \in 1..Len(s) : i # j => s[i] # s[j]}

\* the QuizSchedule that createSchedule builds for autoGenerateQuiz
AutoSchedule(id, date, time, subject, selectedChapters) ==
    [id |-> id, date |-> date, time |-> time, status |-> "scheduled",
     questionCount |-> DefaultQuestionCount, completedAt |-> 0,
     subjectIds |-> <<subject>>,
     chapterIds |-> [i \in 1..Len(selectedChapters) |-> selectedChapters[i]._id]]

\* what the store may hold when the firing comes: nothing, or one schedule
\* of the slot or of the other slot, in any status
StoredBefore ==
    {<<>>} \cup {<<[NewSchedule(1, 1, time, 1) EXCEPT !.status = status]>> :
                    time \in Times,
                    status \in {"scheduled", "in_progress", "completed", "cancelled"}}

InitAuto ==
    /\ usedLog = <<>>
    /\ clock = [day |-> 1, phase |-> 2]
    /\ tasks = [t \in Tasks |-> IdleTask]
    /\ nextId = 2
    /\ faults = 0
    /\ stamp = 1
    /\ delivered = {}
    /\ store \in StoredBefore
    /\ call \in [fn : {"checkAndExecuteQuiz"}, time : Times,
                 subjects : {<<>>, <<1>>, <<1, 2>>},
                 chapters : {ChaptersOf(k, j) : k \in 0..MaxChapters, j \in 0..1}]
    /\ ret = [fn |-> "checkAndExecuteQuiz", pc |-> "lookup", found |-> NoSched,
              subjects |-> <<>>, chapters |-> <<>>, schedules |-> <<>>,
              before |-> store, created |-> <<>>, executed |-> <<>>]

\* a store request of this firing: it succeeds, or fails within the budget
StoreRequest(ok) ==
    /\ ok \in BOOLEAN
    /\ ~ok => faults < MaxFaults
    /\ faults' = IF ok THEN faults ELSE faults + 1

\* checkAndExecuteQuiz: getScheduleFor(today, time); a schedule found is
\* executed, otherwise autoGenerateQuiz starts
AutoLookup ==
    /\ call.fn = "checkAndExecuteQuiz"
    /\ ret.pc = "lookup"
    /\ \E ok \in BOOLEAN :
          /\ StoreRequest(ok)
          /\ LET s == GetScheduleFor(GetValue(store, <<>>, ok), clock.day, call.time)
             IN ret' = IF s # NoSched
                       THEN [ret EXCEPT !.pc = "done", !.found = s, !.executed = <<s>>]
                       ELSE [ret EXCEPT !.pc = "fetch"]
    /\ UNCHANGED <<store, usedLog, clock, tasks, nextId, stamp, delivered, call>>

\* autoGenerateQuiz: getSubjects and getChapters, the empty-subjects return,
\* the random subject and chapters, and createSchedule up to its load
AutoGenerateQuiz ==
    /\ call.fn = "checkAndExecuteQuiz"
    /\ ret.pc = "fetch"
    /\ \E subjectsOk, chaptersOk, ok \in BOOLEAN :
          LET subjects == GetActive(call.subjects, subjectsOk)
              chapters == GetActive(call.chapters, chaptersOk)
          IN IF subjects = <<>>
             THEN /\ ret' = [ret EXCEPT !.pc = "done"]
                  /\ UNCHANGED <<faults, nextId>>
             ELSE /\ StoreRequest(ok)
                  /\ nextId' = nextId + 1
                  /\ \E randomSubject \in Range(subjects) :
                     \E selected \in SelectedChapters(SubjectChapters(chapters, randomSubject)) :
                        ret' = [ret EXCEPT
                                  !.pc = "save",
                                  !.subjects = subjects,
                                  !.chapters = chapters,
                                  !.schedules = GetValue(store, <<>>, ok),
                                  !.created = Append(@, AutoSchedule(nextId, clock.day,
                                                  call.time, randomSubject, selected))]
    /\ UNCHANGED <<store, usedLog, clock, tasks, stamp, delivered, call>>

\* createSchedule: push, saveSchedules; then executeScheduledQuiz(newSchedule)
AutoCreateSave ==
    /\ call.fn = "checkAndExecuteQuiz"
    /\ ret.pc = "save"
    /\ \E ok \in BOOLEAN :
          /\ StoreRequest(ok)
          /\ store' = SetValue(store, Append(ret.schedules, ret.created[1]), ok)
    /\ ret' = [ret EXCEPT !.pc = "done", !.executed = <<ret.created[1]>>]
    /\ UNCHANGED <<usedLog, clock, tasks, nextId, stamp, delivered, call>>

NextAuto == AutoLookup \/ AutoGenerateQuiz \/ AutoCreateSave

SpecAuto == InitAuto /\ [][NextAuto]_vars

\* ---- C24

AutoOver == call.fn = "checkAndExecuteQuiz" /\ ret.pc = "done"

C24_NoSubjectWitness ==
    AutoOver /\ ret.found = NoSched /\ call.subjects = <<>> /\ ret.created = <<>>

\* ---------------------------------------------------------------------
\* The four cron jobs of initScheduler. Time is counted in minutes since
\* midnight UTC of day 0, in steps of half an hour; cron.schedule is given
\* no timezone option, so node-cron matches an expression against the wall
\* clock of the process, which is offset minutes ahead of UTC.

\* the offsets of the process clock: UTC, IST, US Eastern (winter), CET
Offsets == {0, 330, -300, 60}

\* minute of the day and day number of an instant on a clock offset by o
MinuteOfDay(now, o) == (now + o) % 1440

DayOf(now, o) == (now + o) \div 1440

\* getISTDate(): the UTC date of now + 5.5 h, as a day number
GetISTDate(now) == (now + 330) \div 1440

\* the cron expressions of initScheduler, as minute of the day
CronJobs ==
    {[kind |-> "execute", time |-> "08:00", minute |-> 2 * 60 + 30],
     [kind |-> "execute", time |-> "20:00", minute |-> 14 * 60 + 30],
     [kind |-> "notify", time |-> "08:00", minute |-> 2 * 60],
     [kind |-> "notify", time |-> "20:00", minute |-> 14 * 60]}

InitCron ==
    /\ Quiet
    /\ call \in [fn : {"initScheduler"}, offset : Offsets]
    /\ ret = [fn |-> "initScheduler", now |-> 1440, fired |-> {}]

\* the jobs whose expression matches the process clock now and that have
\* not run at this instant
Due(kind) ==
    {j \in CronJobs :
        /\ j.kind = kind
        /\ j.minute = MinuteOfDay(ret.now, call.offset)
        /\ \A f \in ret.fired : ~(f.kind = j.kind /\ f.time = j.time /\ f.at = ret.now)}

Fire(j) ==
    ret' = [ret EXCEPT !.fired = @ \cup {[kind |-> j.kind, time |-> j.time,
                                         at |-> ret.now, date |-> GetISTDate(ret.now)]}]

\* a quiz job runs: checkAndExecuteQuiz(time) reads getISTDate()
CronExecute ==
    /\ call.fn = "initScheduler"
    /\ \E j \in Due("execute") : Fire(j)
    /\ UNCHANGED <<store, usedLog, clock, tasks, nextId, faults, stamp, delivered, call>>

\* a notification job runs: checkAndSendNotification(time) reads getISTDate()
CronNotify ==
    /\ call.fn = "initScheduler"
    /\ \E j \in Due("notify") : Fire(j)
    /\ UNCHANGED <<store, usedLog, clock, tasks, nextId, faults, stamp, delivered, call>>

\* half an hour passes, once every job due now has run
CronTick ==
    /\ call.fn = "initScheduler"
    /\ Due("execute") = {} /\ Due("notify") = {}
    /\ ret.now + 30 < (MaxDay + 2) * 1440
    /\ ret' = [ret EXCEPT !.now = @ + 30]
    /\ UNCHANGED <<store, usedLog, clock, tasks, nextId, faults, stamp, delivered, call>>

NextCron == CronExecute \/ CronNotify \/ CronTick

SpecCron == InitCron /\ [][NextCron]_vars

\* ---- C26

\* the minute of the IST day at which each job is to run
ISTMinute(kind, time) ==
    IF kind = "execute" THEN (IF time = "08:00" THEN 8 * 60 ELSE 20 * 60)
    ELSE (IF time = "08:00" THEN 7 * 60 + 30 ELSE 19 * 60 + 30)

\* the instants gone by, the present one excluded
Past == {m \in 1440..ret.now : m % 30 = 0 /\ m < ret.now}

FiringsAtISTTimes ==
    /\ \A f \in ret.fired :
          /\ MinuteOfDay(f.at, 330) = ISTMinute(f.kind, f.time)
          /\ f.date = DayOf(f.at, 330)
    /\ \A m \in Past : \A j \in CronJobs :
          MinuteOfDay(m, 330) = ISTMinute(j.kind, j.time)
              => \E f \in ret.fired : f.kind = j.kind /\ f.time = j.time /\ f.at = m

\* C26: whatever the offset of the process clock, each execution job runs at
\* 08:00 and 20:00 IST and each notification job at 07:30 and 19:30 IST, at
\* every such instant and at no other, and the date each reads is the IST
\* date of the instant.
C26_FiresAtISTTimes ==
    call.fn = "initScheduler" => FiringsAtISTTimes

\* C26, for a process clock on UTC: the jobs run at the IST times.
C26_FiresAtISTTimesOnUTC ==
    (call.fn = "initScheduler" /\ call.offset = 0) => FiringsAtISTTimes

\* C26, any process clock: the date a job reads is the IST date of the
\* instant, each notification runs 30 minutes before its execution, and the
\* two executions are 12 hours apart.
C26_DateAndSpacing ==
    call.fn = "initScheduler" =>
        /\ \A f \in ret.fired : f.date = DayOf(f.at, 330)
        /\ \A f \in ret.fired :
              f.kind = "execute" =>
                  \E g \in ret.fired :
                      g.kind = "notify" /\ g.time = f.time /\ g.at = f.at - 30

\* ---- C27: the used-question log under markQuestionsUsed

\* the records of a log that are not older than the retention window
Retained(log, today) == SelectSeq(log, LAMBDA r : r.usedAt > today - RetentionDays)

\* one record per question of the session of task t, stamped with the day
\* on which the call read its clock
RecordsOf(t, day) ==
    [i \in 1..Len(tasks[t].final) |->
        [questionId |-> tasks[t].final[i], scheduleId |-> tasks[t].sched.id,
         usedAt |-> day]]

\* C27: every change of the used-question log is one markQuestionsUsed call
\* that keeps the records younger than 30 days, unchanged and in order, and
\* appends after them one record per question id of the call.
C27_AppendOnlyButPruning ==
    [][usedLog' # usedLog =>
          \E t \in Tasks : \E day \in 1..clock.day :
              /\ tasks[t].pc = "mark_save"
              /\ usedLog' = Retained(usedLog, day) \o RecordsOf(t, day)]_vars

\* ---------------------------------------------------------------------
\* The poster (poster.ts): createDiverseBatches.

\* a TelegramMessage: its id, its channel, the number of its documents
Message(id, channel, documents) ==
    [id |-> id, channel |-> channel, documents |-> documents]

HasDoc(msg) == msg.documents > 0

\* remaining.splice(i, 1)
Splice(remaining, i) ==
    [k \in 1..(Len(remaining) - 1) |-> IF k < i THEN remaining[k] ELSE remaining[k + 1]]

RECURSIVE DiverseLoop(_, _, _, _, _)
\* the for loop of createDiverseBatches, from position i (counted from 1)
DiverseLoop(remaining, i, batch, channelsInBatch, maxBatchSize) ==
    IF i > Len(remaining) \/ Len(batch) >= maxBatchSize
    THEN [batch |-> batch, remaining |-> remaining]
    ELSE IF HasDoc(remaining[i])
    THEN IF batch = <<>>
         THEN [batch |-> <<remaining[i]>>, remaining |-> Splice(remaining, i)]
         ELSE DiverseLoop(remaining, i + 1, batch, channelsInBatch, maxBatchSize)
    ELSE IF remaining[i].channel \notin channelsInBatch \/ Len(batch) < 2
    THEN DiverseLoop(Splice(remaining, i), i, Append(batch, remaining[i]),
                     channelsInBatch \cup {remaining[i].channel}, maxBatchSize)
    ELSE DiverseLoop(remaining, i + 1, batch, channelsInBatch, maxBatchSize)

RECURSIVE FillLoop(_, _, _)
\* (variant with a slip: the batch takes all that remains, whatever its size)
FillLoopTakesAll(batch, remaining, maxBatchSize) ==
    [batch |-> batch \o remaining, remaining |-> <<>>]

\* the while loop after it: the batch is filled from the front of remaining
\* until a document comes up
FillLoop(batch, remaining, maxBatchSize) ==
    IF Len(batch) >= maxBatchSize \/ remaining = <<>> THEN [batch |-> batch, remaining |-> remaining]
    ELSE IF HasDoc(remaining[1]) /\ batch # <<>>
    THEN [batch |-> batch, remaining |-> remaining]
    ELSE FillLoop(Append(batch, remaining[1]), Tail(remaining), maxBatchSize)

RECURSIVE BatchLoop(_, _, _)
\* the outer while loop
BatchLoop(remaining, batches, maxBatchSize) ==
    IF remaining = <<>> THEN batches
    ELSE LET diverse == DiverseLoop(remaining, 1, <<>>, {}, maxBatchSize)
             filled == FillLoop(diverse.batch, diverse.remaining, maxBatchSize)
         IN BatchLoop(filled.remaining,
                      IF filled.batch # <<>> THEN Append(batches, filled.batch) ELSE batches,
                      maxBatchSize)

\* createDiverseBatches(messages, maxBatchSize)
CreateDiverseBatches(messages, maxBatchSize) == BatchLoop(messages, <<>>, maxBatchSize)

Channels == {"X", "Y"}

\* the message lists: ids by position, any channel, with or without document
MessageLists ==
    UNION {{[i \in 1..n |-> Message(i, c[i], d[i])] :
               c \in [1..n -> Channels], d \in [1..n -> 0..1]} : n \in 0..MaxMessages}

InitBatch ==
    /\ Quiet
    /\ call \in [fn : {"createDiverseBatches"}, messages : MessageLists]
    /\ ret = NoCall

\* runPoster, phase 3: createDiverseBatches(uniqueMessages, BATCH_SIZE)
CallCreateDiverseBatches ==
    /\ call.fn = "createDiverseBatches"
    /\ ret = NoCall
    /\ ret' = [fn |-> "createDiverseBatches",
               value |-> CreateDiverseBatches(call.messages, BATCH_SIZE)]
    /\ UNCHANGED <<store, usedLog, clock, tasks, nextId, faults, stamp, delivered, call>>

NextBatch == CallCreateDiverseBatches

SpecBatch == InitBatch /\ [][NextBatch]_vars

\* ---- C29

Batched == ret # NoCall /\ ret.fn = "createDiverseBatches"

\* C29: in the output of createDiverseBatches a message that carries a
\* document is the only message of its batch.
C29_DocumentsGoSolo ==
    Batched =>
        \A b \in 1..Len(ret.value) :
            (\E k \in 1..Len(ret.value[b]) : HasDoc(ret.value[b][k]))
                => Len(ret.value[b]) = 1

\* C29, what the code does give: the batches hold every message exactly
\* once and at most BATCH_SIZE each, and a document is never placed after
\* another message: it is the first message of its batch.
C29_DocumentsGoFirst ==
    Batched =>
        /\ \A i \in 1..Len(call.messages) :
              Cardinality({<<b, k>> \in (1..Len(ret.value)) \X (1..BATCH_SIZE) :
                              k <= Len(ret.value[b]) /\ ret.value[b][k] = call.messages[i]}) = 1
        /\ \A b \in 1..Len(ret.value) :
              /\ Len(ret.value[b]) \in 1..BATCH_SIZE
              /\ \A k \in 2..Len(ret.value[b]) : ~HasDoc(ret.value[b][k])

\* ---------------------------------------------------------------------
\* runPoster, one run per task; the runs share the in-memory caches
\* lastProcessedCache (config.ts) and postsCache (content-tracker.ts) and
\* interleave at their awaits.

\* getNewMessages(messages, lastId); lastId 0 stands for undefined
GetNewMessages(messages, lastId) ==
    IF lastId = 0 THEN SubSeq(messages, 1, Min(1, Len(messages)))
    ELSE SelectSeq(messages, LAMBDA m : m.id > lastId)

\* hashContent of a source text, and of the text the AI put in its place
HashOf(msg, decision) ==
    <<IF decision = "rewrite" THEN "rewritten" ELSE "text", msg.channel, msg.id>>

\* what the channel pages show, newest first: the messages 5 .. 4+n of X, at
\* most one of them with a document, and at most one message of Y, MaxFeed
\* messages at most in all
Feeds ==
    {[X |-> [i \in 1..f[1] |-> Message(5 + f[1] - i, "X", IF i = f[3] THEN 1 ELSE 0)],
      Y |-> [i \in 1..f[2] |-> Message(5, "Y", 0)]] :
        f \in {g \in (1..MaxFeed) \X (0..1) \X (0..MaxFeed) :
                  g[1] + g[2] <= MaxFeed /\ g[3] <= g[1]}}

IdlePoster ==
    [pc |-> "idle", channels |-> <<>>, allMessages |-> <<>>, pending |-> <<>>,
     uniqueMessages |-> <<>>, batches |-> <<>>, decisions |-> <<>>, k |-> 0]

InitPoster ==
    /\ Quiet
    /\ call \in [fn : {"runPoster"}, feed : Feeds, last : {0, 4}]
    /\ ret = [fn |-> "runPoster",
              lastProcessedCache |-> [c \in Channels |-> call.last],
              postsCache |-> <<>>,
              posted |-> [key \in Channels \X (5..(4 + MaxFeed)) |-> 0],
              overlapped |-> FALSE,
              runs |-> [t \in Tasks |-> IdlePoster]]

PosterActive(t) == ret.runs[t].pc \notin {"idle", "done"}

\* setLastProcessed(channel, messageId), its synchronous part
SetLastProcessed(cache, msg) == [cache EXCEPT ![msg.channel] = msg.id]

RECURSIVE SkipLoop(_, _, _, _)
\* processSingleMessage / the loop of processBatch from message k on, up to
\* the next await: a message the AI skipped (or left without decision) only
\* moves lastProcessed
SkipLoop(batch, decisions, k, cache) ==
    IF k > Len(batch) \/ decisions[k] # "skip" THEN [k |-> k, cache |-> cache]
    ELSE SkipLoop(batch, decisions, k + 1, SetLastProcessed(cache, batch[k]))

\* the run after its batch is through: the next batch is evaluated, or the
\* run is complete
NextBatchOf(run) ==
    IF Len(run.batches) <= 1
    THEN [IdlePoster EXCEPT !.pc = "done"]
    ELSE [run EXCEPT !.pc = "evaluate", !.batches = Tail(@), !.decisions = <<>>, !.k = 0]

\* the run at message k of its batch, the skipped ones passed
AtMessage(run, k) ==
    IF k > Len(run.batches[1]) THEN NextBatchOf(run)
    ELSE [run EXCEPT !.pc = "post", !.k = k]

\* runPoster is called: the channel lists are read
PosterBegin(t) ==
    /\ call.fn = "runPoster"
    /\ ret.runs[t].pc = "idle"
    /\ ret' = [ret EXCEPT
                 !.runs[t] = [IdlePoster EXCEPT !.pc = "scrape", !.channels = <<"X", "Y">>],
                 !.overlapped = @ \/ \E u \in Tasks \ {t} : PosterActive(u)]
    /\ UNCHANGED <<store, usedLog, clock, tasks, nextId, faults, stamp, delivered, call>>

\* phase 1, one channel: scrapeChannel resolves (or throws, which is caught)
\* and getNewMessages reads lastProcessed[channel]
Scrape(t) ==
    /\ call.fn = "runPoster"
    /\ ret.runs[t].pc = "scrape"
    /\ \E ok \in BOOLEAN :
          /\ Gateway(ok)
          /\ LET run == ret.runs[t]
                 channel == run.channels[1]
                 messages == IF ok THEN call.feed[channel] ELSE <<>>
                 newMessages == GetNewMessages(messages, ret.lastProcessedCache[channel])
                 allMessages == run.allMessages \o Reverse(newMessages)
             IN ret' = [ret EXCEPT !.runs[t] =
                          IF Len(run.channels) > 1
                          THEN [run EXCEPT !.channels = Tail(@), !.allMessages = allMessages]
                          ELSE IF allMessages = <<>> THEN [IdlePoster EXCEPT !.pc = "done"]
                          ELSE [run EXCEPT !.pc = "dedupe", !.channels = <<>>,
                                           !.allMessages = allMessages,
                                           !.pending = allMessages]]
    /\ UNCHANGED <<store, usedLog, clock, tasks, nextId, stamp, delivered, call>>

\* phase 2, one message: isDuplicate finds the hash of the text in
\* postsCache, or asks the AI when the cache is not empty; a duplicate only
\* moves lastProcessed. After the last message the batches are made
FilterDuplicate(t) ==
    /\ call.fn = "runPoster"
    /\ ret.runs[t].pc = "dedupe"
    /\ LET run == ret.runs[t]
           msg == run.pending[1]
           exactMatch == \E i \in 1..Len(ret.postsCache) :
                             ret.postsCache[i].hash = HashOf(msg, "post")
       IN \E ai \in BOOLEAN :
             /\ ai => (~exactMatch /\ ret.postsCache # <<>>)
             /\ LET isDupe == exactMatch \/ ai
                    uniqueMessages == IF isDupe THEN run.uniqueMessages
                                      ELSE Append(run.uniqueMessages, msg)
                IN ret' = [ret EXCEPT
                             !.lastProcessedCache =
                                 IF isDupe THEN SetLastProcessed(@, msg) ELSE @,
                             !.runs[t] =
                                 IF Len(run.pending) > 1
                                 THEN [run EXCEPT !.pending = Tail(@),
                                                  !.uniqueMessages = uniqueMessages]
                                 ELSE IF uniqueMessages = <<>>
                                 THEN [IdlePoster EXCEPT !.pc = "done"]
                                 ELSE [run EXCEPT
                                         !.pc = "evaluate", !.pending = <<>>,
                                         !.uniqueMessages = uniqueMessages,
                                         !.batches = CreateDiverseBatches(uniqueMessages,
                                                                          BATCH_SIZE)]]
    /\ UNCHANGED <<store, usedLog, clock, tasks, nextId, faults, stamp, delivered, call>>

\* phase 4, one batch: evaluateContent / evaluateBatch resolves with a
\* decision per message (or throws: the batch is dropped); the messages
\* skipped at the front of the batch are passed at once
Evaluate(t) ==
    /\ call.fn = "runPoster"
    /\ ret.runs[t].pc = "evaluate"
    /\ \E ok \in BOOLEAN :
          /\ Gateway(ok)
          /\ LET run == ret.runs[t]
                 batch == run.batches[1]
             IN IF ~ok THEN ret' = [ret EXCEPT !.runs[t] = NextBatchOf(run)]
                ELSE \E decisions \in [1..Len(batch) -> {"skip", "post", "rewrite"}] :
                        LET passed == SkipLoop(batch, decisions, 1, ret.lastProcessedCache)
                        IN ret' = [ret EXCEPT
                                     !.lastProcessedCache = passed.cache,
                                     !.runs[t] = AtMessage([run EXCEPT !.decisions = decisions],
                                                           passed.k)]
    /\ UNCHANGED <<store, usedLog, clock, tasks, nextId, stamp, delivered, call>>

RECURSIVE PostMessageWithRetry(_, _, _)
\* postMessageWithRetry(message, retries) from attempt i + 1 on, outcomes[k]
\* telling whether the k-th postMessage resolves: the attempts made and
\* whether the message was posted; it returns normally either way
PostMessageWithRetry(outcomes, i, retries) ==
    IF i >= retries THEN [attempts |-> i, posted |-> FALSE]
    ELSE IF outcomes[i + 1] THEN [attempts |-> i + 1, posted |-> TRUE]
    ELSE PostMessageWithRetry(outcomes, i + 1, retries)

\* how the successive postMessage calls would go: they throw up to the
\* first that resolves, if any does
PostOutcomes ==
    {[k \in 1..(Retries + 1) |-> k >= first] : first \in 1..(Retries + 2)}

\* postMessageWithRetry settles: the message is in the target channel, or
\* the three attempts failed
Post(t) ==
    /\ call.fn = "runPoster"
    /\ ret.runs[t].pc = "post"
    /\ \E outcomes \in PostOutcomes :
        LET ok == PostMessageWithRetry(outcomes, 0, Retries).posted IN
          /\ Gateway(ok)
          /\ LET run == ret.runs[t]
                 msg == run.batches[1][run.k]
             IN ret' = [ret EXCEPT
                          !.posted[<<msg.channel, msg.id>>] = IF ok THEN @ + 1 ELSE @,
                          !.runs[t].pc = "record"]
    /\ UNCHANGED <<store, usedLog, clock, tasks, nextId, stamp, delivered, call>>

\* recordPost and setLastProcessed for the message, then the loop goes on
\* to the next message that is not skipped
Record(t) ==
    /\ call.fn = "runPoster"
    /\ ret.runs[t].pc = "record"
    /\ LET run == ret.runs[t]
           batch == run.batches[1]
           msg == batch[run.k]
           passed == SkipLoop(batch, run.decisions, run.k + 1,
                              SetLastProcessed(ret.lastProcessedCache, msg))
       IN ret' = [ret EXCEPT
                    !.postsCache = Append(@, [hash |-> HashOf(msg, run.decisions[run.k]),
                                              sourceChannel |-> msg.channel,
                                              originalId |-> msg.id]),
                    !.lastProcessedCache = passed.cache,
                    !.runs[t] = AtMessage(run, passed.k)]
    /\ UNCHANGED <<store, usedLog, clock, tasks, nextId, faults, stamp, delivered, call>>

NextPoster ==
    \E t \in Tasks :
        \/ PosterBegin(t)
        \/ Scrape(t)
        \/ FilterDuplicate(t)
        \/ Evaluate(t)
        \/ Post(t)
        \/ Record(t)

SpecPoster == InitPoster /\ [][NextPoster]_vars

\* ---- C28

\* ret.posted counts, per source message, its posts in the target channel
PostedTwice == \E key \in DOMAIN ret.posted : ret.posted[key] > 1

\* C28: whatever the runs of runPoster, overlapping or not, no source
\* message (channel, id) is posted to the target channel more than once.
C28_NoMessagePostedTwice ==
    call.fn = "runPoster" => ~PostedTwice

\* C28, for runs that follow one another: no source message is posted more
\* than once while no run has started during another.
C28_NoRepostBetweenRuns ==
    (call.fn = "runPoster" /\ ~ret.overlapped) => ~PostedTwice

\* C28, for runs that follow one another and post the source text as it
\* is: no source message is posted more than once.
C28_NoRepostOfUnchangedText ==
    (/\ call.fn = "runPoster"
     /\ ~ret.overlapped
     /\ \A i \in 1..Len(ret.postsCache) : ret.postsCache[i].hash[1] = "text") => ~PostedTwice

\* ---- C30: what an attempt yields, and when the loop gives up early
\* the documents selectQuestions may still return that this loop has not drawn
EligibleUndrawn ==
    {q \in Ids(call.docs) :
        /\ q \notin RecentlyUsed(GetValue(usedLog, <<>>, TRUE), AvoidRecentDays, clock.day)
        /\ q \notin ret.drawn}

\* the loop was left short of its target with attempts to spare
GaveUpEarly ==
    /\ ret.exit = "nothing_new"
    /\ ret.accepted < call.questionCount
    /\ ret.calls < MaxAttempts

\* C30 (as claimed): every attempt yields only candidates not drawn before in
\* this loop, and the loop ends short of questionCount with attempts to spare
\* only when no eligible question remains that this loop has not drawn.
C30_EarlyExitOnlyWhenExhausted ==
    /\ Range(ret.batch) \cap ret.prior = {}
    /\ GaveUpEarly => EligibleUndrawn = {}

\* C30 (first half alone): the candidates an attempt passes on to the quality
\* check are distinct and none of them was drawn by an earlier attempt.
C30_OnlyNewCandidates ==
    /\ Range(ret.batch) \cap ret.prior = {}
    /\ Distinct(ret.batch)

C30_NewCandidatesWitness ==
    /\ ret.calls >= 2
    /\ ret.prior # {}
    /\ ret.batch # <<>>

\* ---- C31: the final list has no repeats and nothing the gate rejected
\* C31: with unique ids in the repository, the list the acquisition loop
\* hands on holds no id twice and no id the quality check rejected in any
\* attempt of the run, and it is never longer than what was approved: a
\* short list stays short.
C31_NoRepeatsNoRejected ==
    LoopOver
        => /\ Distinct(tasks[1].final)
           /\ Range(tasks[1].final) \cap ret.refused = {}
           /\ Range(tasks[1].final) \subseteq ret.drawn \ ret.refused
           /\ Len(tasks[1].final) <= call.questionCount

\* a short list after a second attempt that followed rejections
C31_Witness ==
    /\ LoopOver
    /\ ret.calls >= 2
    /\ ret.refused # {}
    /\ tasks[1].final # <<>>
    /\ Len(tasks[1].final) < call.questionCount

\* ---- C32: how many questions a selection returns
\* what is left of the fetched documents once the recently used ones and
\* the later documents of a repeated dedupeKey are dropped
PoolOf(c) ==
    Dedupe(SelectSeq(Slice(c.docs, Min(c.count * FetchFactor, FetchCap)),
                     LAMBDA q : q.id \notin c.recentlyUsed))

DefaultSelected == Selected /\ call.ratio = DifficultyRatio /\ call.repoOk

\* C32: with the default ratio, a selection whose query returned gives
\* exactly min(count, |pool|) questions, all distinct and all from the pool:
\* the whole pool when it is smaller than count, exactly count otherwise,
\* short buckets being made up from the others.
C32_ReturnsMinOfCountAndPool ==
    DefaultSelected
        => /\ Len(ret.value) = Min(call.count, Len(PoolOf(call)))
           /\ \A i, j \in 1..Len(ret.value) :
                i # j => ret.value[i].id # ret.value[j].id
           /\ Ids(ret.value) \subseteq Ids(PoolOf(call))

\* a full answer although no bucket could give its share
C32_Witness ==
    /\ DefaultSelected
    /\ Len(PoolOf(call)) > call.count
    /\ Len(PoolOf(call)) < Len(call.docs)
    /\ CountOf(PoolOf(call), "EASY") < Round(call.count, DifficultyRatio.EASY)
    /\ Len(ret.value) = call.count

\* everything available, short of the count
C32_ShortWitness ==
    /\ DefaultSelected
    /\ Len(PoolOf(call)) > 0
    /\ Len(PoolOf(call)) < call.count
    /\ Len(ret.value) = Len(PoolOf(call))

\* ---- C33: the share of each difficulty
LevelDocs(c, level) == SelectSeq(PoolOf(c), LAMBDA q : q.level = level)

\* every bucket holds round(count * ratio) questions of its difficulty
HoldsRoundedShares(c) ==
    \A d \in {"EASY", "MEDIUM", "HARD"} :
        Len(LevelDocs(c, d)) >= Round(c.count, c.ratio[d])

\* C33 (as claimed): for every count and ratio, when every bucket holds at
\* least round(count * ratio) questions, the output has exactly
\* round(count * ratio) questions of each of EASY, MEDIUM and HARD.
C33_RoundedShareOfEach ==
    (Selected /\ call.repoOk /\ HoldsRoundedShares(call))
        => \A d \in {"EASY", "MEDIUM", "HARD"} :
              CountOf(ret.value, d) = Round(call.count, call.ratio[d])

\* every bucket holds what the code takes from it: the rounded share of
\* EASY and of MEDIUM, and of HARD what is left of the count
HoldsShares(c) ==
    /\ Len(LevelDocs(c, "EASY")) >= Round(c.count, c.ratio.EASY)
    /\ Len(LevelDocs(c, "MEDIUM")) >= Round(c.count, c.ratio.MEDIUM)
    /\ Len(LevelDocs(c, "HARD")) >= HardCount(c.count, c.ratio)

\* C33 (what the code does): when every bucket holds its share, the output has exactly
\* round(count * ratio) EASY and round(count * ratio) MEDIUM questions, and,
\* when count - those two is not negative, exactly that many HARD questions
\* and count questions in all.
C33_RoundedEasyMediumRestHard ==
    (Selected /\ call.repoOk /\ HoldsShares(call))
        => /\ CountOf(ret.value, "EASY") = Round(call.count, call.ratio.EASY)
           /\ CountOf(ret.value, "MEDIUM") = Round(call.count, call.ratio.MEDIUM)
           /\ HardCount(call.count, call.ratio) >= 0
                => /\ CountOf(ret.value, "HARD") = HardCount(call.count, call.ratio)
                   /\ Len(ret.value) = call.count

\* a request for 3 with the default ratio: 1 EASY, 2 MEDIUM and no HARD
\* question although round(3 * 0.2) = 1 and a HARD question was at hand
C33_ThreeWithoutHard ==
    /\ Selected /\ call.repoOk /\ HoldsShares(call)
    /\ call.count = 3 /\ call.ratio = DifficultyRatio
    /\ Len(LevelDocs(call, "HARD")) >= 1
    /\ CountOf(ret.value, "EASY") = 1
    /\ CountOf(ret.value, "MEDIUM") = 2
    /\ CountOf(ret.value, "HARD") = 0

\* ---- C34: whole-list writes of the schedule list
\* no activation but t has started so far: no two writers have overlapped
OnlyWriter(t) == \A u \in Tasks \ {t} : tasks[u].pc = "idle" /\ tasks'[u].pc = "idle"

\* activation t takes its step from the position pc
StepsFrom(t, pc) == tasks[t].pc = pc /\ tasks'[t] # tasks[t]

StoredStatus(list, id) ==
    IF FindIndex(list, id) > 0 THEN list[FindIndex(list, id)].status ELSE "none"

\* the save of createSchedule leaves the new schedule and every schedule
\* stored before it in the store
CreateReflected(t) ==
    StepsFrom(t, "create_save")
        => /\ FindIndex(store', tasks[t].sched.id) > 0
           /\ \A i \in 1..Len(store) : FindIndex(store', store[i].id) > 0

\* updateScheduleStatus on a stored id goes on to save, and its save leaves
\* the requested status in the store
UpdateReflected(t) ==
    /\ (StepsFrom(t, "upd_load") /\ FindIndex(store, tasks[t].sched.id) > 0)
          => tasks'[t].pc = "upd_save"
    /\ StepsFrom(t, "upd_save")
          => StoredStatus(store', tasks[t].sched.id) = tasks[t].req

\* C34 (as claimed, second half): as long as writers never overlap, every
\* createSchedule and every updateScheduleStatus on a stored id is reflected
\* in the stored list.
C34_ReflectedWithoutOverlap ==
    [][\A t \in Tasks : OnlyWriter(t) => (CreateReflected(t) /\ UpdateReflected(t))]_vars

\* C34 (first half): no save of createSchedule changes or drops a schedule
\* that is in the store; overlapping writers break this.
C34_NoStaleWrite ==
    [][\A t \in Tasks :
          StepsFrom(t, "create_save")
              => \A i \in 1..Len(store) :
                    StoredStatus(store', store[i].id) = store[i].status]_vars

\* C34 (what the code does): the same as the second half, for the writes
\* none of whose store requests fails.
C34_ReflectedWithoutOverlapOrFault ==
    [][\A t \in Tasks :
          (OnlyWriter(t) /\ faults' = faults)
              => (CreateReflected(t) /\ UpdateReflected(t))]_vars

\* ---- C35: executing a schedule the store does not hold
\* C35 (as claimed): when updateScheduleStatus(in_progress) at the start of
\* executeScheduledQuiz does not find the schedule in the store, the run
\* ends there: it selects no question and delivers nothing.
C35_NotFoundNothingDone ==
    [][\A t \in Tasks :
          (/\ StepsFrom(t, "upd_load")
           /\ tasks[t].req = "in_progress"
           /\ FindIndex(store, tasks[t].sched.id) = 0)
              => tasks'[t].pc = "done"]_vars

\* a session was delivered for a schedule the store has never held
C35_DeliveredUnstored ==
    /\ faults = 1
    /\ \A u \in Tasks \ {1} : tasks[u].pc = "idle"
    /\ tasks[1].kind = "test" /\ ~tasks[1].created
    /\ \E r \in delivered : r.id = tasks[1].sched.id /\ FindIndex(store, r.id) = 0

\* ---- C36: a returned execution leaves a terminal status
\* activation t returns from executeScheduledQuiz in this step
Returns(t) ==
    /\ tasks[t].pc \in {"upd_load", "upd_save"}
    /\ tasks[t].kind # "weekly"
    /\ tasks[t].req \in {"completed", "cancelled"}
    /\ tasks'[t].pc = "done"

\* C36 (as claimed): when executeScheduledQuiz returns for a schedule the
\* store holds, the stored status of that schedule is completed or
\* cancelled: it is not left in_progress (or scheduled).
C36_ReturnsWithTerminalStatus ==
    [][\A t \in Tasks :
          (Returns(t) /\ FindIndex(store, tasks[t].sched.id) > 0)
              => StoredStatus(store', tasks[t].sched.id) \in Terminal]_vars

\* C36 (what the code does): the same for a run none of whose store
\* requests failed and which no other activation has overlapped.
C36_TerminalWithoutFaultOrOverlap ==
    [][\A t \in Tasks :
          (/\ Returns(t) /\ FindIndex(store, tasks[t].sched.id) > 0
           /\ OnlyWriter(t) /\ faults' = 0)
              => StoredStatus(store', tasks[t].sched.id) \in Terminal]_vars

\* ---- C37: dedupeKeys in the final list
KeyOf(id) == call.docs[CHOOSE i \in 1..Len(call.docs) : call.docs[i].id = id].key

\* C37 (as claimed): the list handed to delivery, accumulated over up to 3
\* attempts whose fetches may come in different orders, holds no two
\* questions with the same non-empty dedupeKey.
C37_NoSharedKeyInFinal ==
    \A i, j \in 1..Len(tasks[1].final) :
        (i # j /\ KeyOf(tasks[1].final[i]) # NoKey)
            => KeyOf(tasks[1].final[i]) # KeyOf(tasks[1].final[j])

\* C37 (what the code does): no two questions accepted in the same attempt
\* share a non-empty dedupeKey.
C37_NoSharedKeyInBatch ==
    \A i, j \in 1..Len(ret.batch) :
        (i # j /\ KeyOf(ret.batch[i]) # NoKey)
            => KeyOf(ret.batch[i]) # KeyOf(ret.batch[j])

C38_AcceptedWitness ==
    /\ ~ret.repoOk
    /\ ret.accepted > 0
    /\ tasks[1].pc = "run_quiz"

\* ---- C39: what is recorded as posted
\* C39 (as claimed): every entry of the posted-content record is of a source
\* message that postMessage delivered to the target channel.
C39_RecordedOnlyIfPosted ==
    call.fn = "runPoster"
        => \A i \in 1..Len(ret.postsCache) :
              ret.posted[<<ret.postsCache[i].sourceChannel,
                           ret.postsCache[i].originalId>>] > 0

\* C39 (the retry alone): postMessageWithRetry stops at the first attempt
\* that succeeds and makes no more than Retries attempts.
C39_AtMostThreeAttempts ==
    \A outcomes \in [1..(Retries + 1) -> BOOLEAN] :
        LET r == PostMessageWithRetry(outcomes, 0, Retries)
        IN /\ r.attempts <= Retries
           /\ r.posted <=> \E k \in 1..Retries : outcomes[k]
           /\ r.posted => (outcomes[r.attempts] /\ \A k \in 1..(r.attempts - 1) : ~outcomes[k])

\* ---- C40: the batches partition the input
\* one pass of the outer loop over what remains: its batch and the rest
OnePass(remaining) ==
    LET diverse == DiverseLoop(remaining, 1, <<>>, {}, BATCH_SIZE)
    IN FillLoop(diverse.batch, diverse.remaining, BATCH_SIZE)

RECURSIVE Flatten(_)
Flatten(batches) ==
    IF batches = <<>> THEN <<>> ELSE Head(batches) \o Flatten(Tail(batches))

\* C40: createDiverseBatches terminates (every pass of its outer loop over a
\* non-empty rest takes at least one message), each input message is in
\* exactly one batch, no batch is empty and none has more than BATCH_SIZE
\* messages.
C40_BatchesPartitionTheInput ==
    /\ (call.fn = "createDiverseBatches" /\ call.messages # <<>>)
          => /\ OnePass(call.messages).batch # <<>>
             /\ Len(OnePass(call.messages).remaining) < Len(call.messages)
             /\ Len(OnePass(call.messages).batch) + Len(OnePass(call.messages).remaining)
                    = Len(call.messages)
    /\ Batched
          => /\ Len(Flatten(ret.value)) = Len(call.messages)
             /\ \A i \in 1..Len(call.messages) :
                   \E k \in 1..Len(Flatten(ret.value)) :
                       Flatten(ret.value)[k] = call.messages[i]
             /\ \A b \in 1..Len(ret.value) :
                   Len(ret.value[b]) >= 1 /\ Len(ret.value[b]) <= BATCH_SIZE

\* five messages of one channel: a full batch and a batch of one
C40_Witness ==
    /\ Batched
    /\ Len(call.messages) = 5
    /\ \A i \in 1..5 : call.messages[i].channel = "X" /\ ~HasDoc(call.messages[i])
    /\ Len(ret.value) = 2
    /\ Len(ret.value[1]) = BATCH_SIZE

====
